---------------------------- MODULE Spec2Model ----------------------------
(***************************************************************************)
(* The XFS reference count btree (fs/xfs/libxfs/xfs_refcount.c): the       *)
(* records of one allocation group, the range adjuster                     *)
(* (xfs_refcount_adjust), the CoW staging tracker (xfs_refcount_adjust_cow)*)
(* and the shared-range query (__xfs_refcount_find_shared).                *)
(*                                                                         *)
(* The generic btree (xfs_btree_lookup, _insert, _delete, _update,         *)
(* _increment, _decrement, _get_rec) is not part of the sources at hand;   *)
(* it is modelled as one ordered leaf: a sequence of records and a cursor  *)
(* position into it.                                                       *)
(***************************************************************************)
EXTENDS Integers, Sequences, FiniteSets, TLC

(***************************************************************************)
(* Bounds of the model.                                                    *)
(***************************************************************************)
\* number of blocks of the allocation group (sb_agblocks), scaled down
AgBlocks == 3
\* the saturation ceiling of rc_refcount (~0U in the format), scaled down;
\* refcount arithmetic wraps modulo MAXREFCOUNT + 1
MAXREFCOUNT == 4
\* a request finds at most this many nr_ops and shape_changes in the cursor
\* it is handed (the work done earlier in the same transaction)
MaxNrOps == 2
MaxShapeChanges == 1
\* an intent item has at most this many slots (cui_nextents)
MaxExtents == 3
\* a CUI found in the log has at most this many extents
RecExtents == 2
\* the transaction's log reservation t_log_res, scaled down
LogRes == 100
\* xfs_allocfree_log_count(mp, 1) * sb_blocksize, scaled down
ShapeOverhead == 40

(***************************************************************************)
(* Program constants.                                                      *)
(***************************************************************************)
EFSCORRUPTED == -117
EIO == -5
EAGAIN == -11
\* xfs_agblock_t and xfs_extlen_t are unsigned 32-bit integers; the model
\* keeps the wrap-around at a width of 20 bits, far above AgBlocks
U32 == 2^20
\* MAXREFCEXTLEN is ~0U, the largest xfs_extlen_t
MAXREFCEXTLEN == U32 - 1
XFS_FIND_RCEXT_SHARED == 1
XFS_FIND_RCEXT_COW == 2
\* enum xfs_refc_adjust_op
XFS_REFCOUNT_ADJUST_INCREASE == 1
XFS_REFCOUNT_ADJUST_DECREASE == -1
XFS_REFCOUNT_ADJUST_COW_ALLOC == 0
XFS_REFCOUNT_ADJUST_COW_FREE == -1
\* the log bytes charged per dirtied record in xfs_refcount_still_have_space
BytesPerOp == 32

Min(a, b) == IF a < b THEN a ELSE b
Max(a, b) == IF a > b THEN a ELSE b
SetMax(S) == CHOOSE x \in S : \A y \in S : y <= x
SetMin(S) == CHOOSE x \in S : \A y \in S : x <= y

\* struct xfs_refcount_irec
Irec(s, l, c) == [rc_startblock |-> s, rc_blockcount |-> l, rc_refcount |-> c]
ZeroRec == Irec(0, 0, 0)
RCNEXT(rc) == rc.rc_startblock + rc.rc_blockcount

\* rc_refcount + adj in 32-bit unsigned arithmetic (scaled to MAXREFCOUNT + 1)
RefAdd(c, adj) == (c + adj) % (MAXREFCOUNT + 1)

(***************************************************************************)
(* The btree cursor: the records of the leaf, the cursor position ptr      *)
(* (0 = off the left edge, Len + 1 = off the right edge) and the budget    *)
(* counters bc_private.a.priv.refc.{nr_ops, shape_changes}.                *)
(***************************************************************************)
Cur(recs, ptr, n, s) == [recs |-> recs, ptr |-> ptr, nr_ops |-> n, shape_changes |-> s]

\* xfs_btree_get_rec: stat
HaveRec(cur) == cur.ptr \in 1..Len(cur.recs)
\* xfs_btree_get_rec: the record under the cursor
GetRec(cur) == cur.recs[cur.ptr]

\* xfs_btree_lookup(cur, XFS_LOOKUP_LE): the last record whose key is <= bno
BtreeLookupLE(recs, bno) ==
    LET S == {i \in 1..Len(recs) : recs[i].rc_startblock <= bno}
    IN  IF S = {} THEN 0 ELSE SetMax(S)

\* xfs_btree_lookup(cur, XFS_LOOKUP_GE): the first record whose key is >= bno
BtreeLookupGE(recs, bno) ==
    LET S == {i \in 1..Len(recs) : recs[i].rc_startblock >= bno}
    IN  IF S = {} THEN Len(recs) + 1 ELSE SetMin(S)

\* xfs_btree_increment / xfs_btree_decrement
BtreeIncrement(cur) == [cur EXCEPT !.ptr = Min(cur.ptr + 1, Len(cur.recs) + 1)]
BtreeDecrement(cur) == [cur EXCEPT !.ptr = Max(cur.ptr - 1, 0)]

\* xfs_btree_insert: stat (the index rejects a duplicate key and a cursor off
\* the left edge)
BtreeInsertStat(cur, rec) ==
    /\ cur.ptr # 0
    /\ \A i \in 1..Len(cur.recs) : cur.recs[i].rc_startblock # rec.rc_startblock
\* xfs_btree_insert: the record goes in at the cursor position
BtreeInsert(cur, rec) ==
    [cur EXCEPT !.recs = SubSeq(cur.recs, 1, cur.ptr - 1) \o <<rec>> \o
                         SubSeq(cur.recs, cur.ptr, Len(cur.recs))]
\* xfs_btree_delete: the record under the cursor goes away
BtreeDelete(cur) ==
    [cur EXCEPT !.recs = SubSeq(cur.recs, 1, cur.ptr - 1) \o
                         SubSeq(cur.recs, cur.ptr + 1, Len(cur.recs))]

xfs_refcount_lookup_le(cur, bno) == [cur EXCEPT !.ptr = BtreeLookupLE(cur.recs, bno)]
xfs_refcount_lookup_ge(cur, bno) == [cur EXCEPT !.ptr = BtreeLookupGE(cur.recs, bno)]

\* a faulty xfs_refcount_update: the new record never reaches the btree
xfs_refcount_update_lost(cur, irec) == cur

\* xfs_refcount_update: rewrite the record under the cursor
xfs_refcount_update(cur, irec) == [cur EXCEPT !.recs[cur.ptr] = irec]

\* xfs_refcount_insert: [cur, error]
xfs_refcount_insert(cur, irec) ==
    IF BtreeInsertStat(cur, irec)
    THEN [cur |-> BtreeInsert(cur, irec), error |-> 0]
    ELSE [cur |-> cur, error |-> EFSCORRUPTED]

\* xfs_refcount_delete: [cur, error]; the cursor is left where the record
\* could be re-inserted
xfs_refcount_delete(cur) ==
    IF ~HaveRec(cur)
    THEN [cur |-> cur, error |-> EFSCORRUPTED]
    ELSE [cur |-> xfs_refcount_lookup_ge(BtreeDelete(cur), GetRec(cur).rc_startblock),
          error |-> 0]

\* xfs_refcount_insert when xfs_btree_insert fails: it returns error and
\* the status i (what the caller's variable held, for the btree writes no
\* status when it fails); the status is tested before the error
xfs_refcount_insert_failed(cur, error, i) ==
    [cur |-> cur, error |-> IF i # 1 THEN EFSCORRUPTED ELSE error]

\* xfs_refcount_delete when xfs_btree_delete fails in the same way
xfs_refcount_delete_failed(cur, error, i) ==
    IF ~HaveRec(cur) THEN [cur |-> cur, error |-> EFSCORRUPTED]
    ELSE [cur |-> cur, error |-> IF i # 1 THEN EFSCORRUPTED ELSE error]

(***************************************************************************)
(* Boundary split.                                                         *)
(***************************************************************************)
\* a faulty xfs_refcount_split_extent: a record that starts below agbno is
\* split whether or not it reaches agbno
xfs_refcount_split_extent_below(cur, agbno) ==
    LET Res(c, error, sc) == [cur |-> c, error |-> error, shape_changed |-> sc]
        Inserted(ins) == Res(ins.cur, ins.error, TRUE)
        Split(c1, rcext) ==
            Inserted(xfs_refcount_insert(
                xfs_refcount_update(c1,
                    Irec(agbno, rcext.rc_blockcount - (agbno - rcext.rc_startblock),
                         rcext.rc_refcount)),
                Irec(rcext.rc_startblock, agbno - rcext.rc_startblock,
                     rcext.rc_refcount)))
        Looked(c1) ==
            IF ~HaveRec(c1) THEN Res(c1, 0, FALSE)
            ELSE IF GetRec(c1).rc_startblock = agbno \/ RCNEXT(GetRec(c1)) < agbno
            THEN Res(c1, 0, FALSE)
            ELSE Split(c1, GetRec(c1))
    IN  Looked(xfs_refcount_lookup_le(cur, agbno))

\* a faulty xfs_refcount_split_extent: the right extent keeps the length of
\* the whole record
xfs_refcount_split_extent_keeplen(cur, agbno) ==
    LET Res(c, error, sc) == [cur |-> c, error |-> error, shape_changed |-> sc]
        Inserted(ins) == Res(ins.cur, ins.error, TRUE)
        Split(c1, rcext) ==
            Inserted(xfs_refcount_insert(
                xfs_refcount_update(c1,
                    Irec(agbno, rcext.rc_blockcount, rcext.rc_refcount)),
                Irec(rcext.rc_startblock, agbno - rcext.rc_startblock,
                     rcext.rc_refcount)))
        Looked(c1) ==
            IF ~HaveRec(c1) THEN Res(c1, 0, FALSE)
            ELSE IF GetRec(c1).rc_startblock = agbno \/ RCNEXT(GetRec(c1)) <= agbno
            THEN Res(c1, 0, FALSE)
            ELSE Split(c1, GetRec(c1))
    IN  Looked(xfs_refcount_lookup_le(cur, agbno))

\* xfs_refcount_split_extent: [cur, error, shape_changed]
xfs_refcount_split_extent(cur, agbno) ==
    LET Res(c, error, sc) == [cur |-> c, error |-> error, shape_changed |-> sc]
        Inserted(ins) == Res(ins.cur, ins.error, TRUE)
        \* establish the right extent, insert the left extent
        Split(c1, rcext) ==
            Inserted(xfs_refcount_insert(
                xfs_refcount_update(c1,
                    Irec(agbno, rcext.rc_blockcount - (agbno - rcext.rc_startblock),
                         rcext.rc_refcount)),
                Irec(rcext.rc_startblock, agbno - rcext.rc_startblock,
                     rcext.rc_refcount)))
        Looked(c1) ==
            IF ~HaveRec(c1) THEN Res(c1, 0, FALSE)
            ELSE IF GetRec(c1).rc_startblock = agbno \/ RCNEXT(GetRec(c1)) <= agbno
            THEN Res(c1, 0, FALSE)
            ELSE Split(c1, GetRec(c1))
    IN  Looked(xfs_refcount_lookup_le(cur, agbno))

(***************************************************************************)
(* Boundary merge.                                                         *)
(***************************************************************************)
\* the flags test of xfs_refcount_find_left_extents / _right_extents
RcextFiltered(tmp, flags) ==
    \/ flags = XFS_FIND_RCEXT_SHARED /\ tmp.rc_refcount < 2
    \/ flags = XFS_FIND_RCEXT_COW /\ tmp.rc_refcount > 1

\* xfs_refcount_find_left_extents: [left, cleft]
xfs_refcount_find_left_extents(cur, agbno, aglen, flags) ==
    LET none == [left |-> ZeroRec, cleft |-> ZeroRec]
        \* tmp is the left extent; nxt, if any, the record after it
        Center(tmp, c2, nxt) ==
            IF HaveRec(c2)
            THEN IF nxt.rc_startblock = agbno
                 THEN [left |-> tmp, cleft |-> nxt]
                 ELSE [left |-> tmp,
                       cleft |-> Irec(agbno,
                                      Min(aglen, (nxt.rc_startblock - agbno) % U32), 1)]
            ELSE [left |-> tmp, cleft |-> Irec(agbno, aglen, 1)]
        Stepped(tmp, c2) == Center(tmp, c2, GetRec(c2))
        Left(c1, tmp) ==
            IF RCNEXT(tmp) # agbno THEN none
            ELSE IF RcextFiltered(tmp, flags) THEN none
            ELSE Stepped(tmp, BtreeIncrement(c1))
        Looked(c1) == IF ~HaveRec(c1) THEN none ELSE Left(c1, GetRec(c1))
    IN  Looked(xfs_refcount_lookup_le(cur, (agbno - 1) % U32))

\* xfs_refcount_find_right_extents: [right, cright]
xfs_refcount_find_right_extents(cur, agbno, aglen, flags) ==
    LET none == [right |-> ZeroRec, cright |-> ZeroRec]
        Hole(tmp, cs) == Irec(cs, (tmp.rc_startblock - cs) % U32, 1)
        \* tmp is the right extent; prv, if any, the record before it
        Center(tmp, c2, prv) ==
            IF HaveRec(c2)
            THEN IF RCNEXT(prv) = agbno + aglen
                 THEN [right |-> tmp, cright |-> prv]
                 ELSE [right |-> tmp, cright |-> Hole(tmp, Max(agbno, RCNEXT(prv)))]
            ELSE [right |-> tmp, cright |-> Irec(agbno, aglen, 1)]
        Stepped(tmp, c2) == Center(tmp, c2, GetRec(c2))
        Right(c1, tmp) ==
            IF tmp.rc_startblock # agbno + aglen THEN none
            ELSE IF RcextFiltered(tmp, flags) THEN none
            ELSE Stepped(tmp, BtreeDecrement(c1))
        Looked(c1) == IF ~HaveRec(c1) THEN none ELSE Right(c1, GetRec(c1))
    IN  Looked(xfs_refcount_lookup_ge(cur, agbno + aglen))

\* the result of a merge helper
MergeRes(cur, agbno, aglen, error) ==
    [cur |-> cur, agbno |-> agbno, aglen |-> aglen, error |-> error]

\* the tail of the three merge helpers: rewrite the record found by
\* lookup_le(key) and move the range
MergeUpdate(cur, key, rec, agbno, aglen) ==
    LET Looked(c1) ==
            IF ~HaveRec(c1)
            THEN MergeRes(c1, agbno, aglen, EFSCORRUPTED)
            ELSE MergeRes(xfs_refcount_update(c1, rec), agbno, aglen, 0)
    IN  Looked(xfs_refcount_lookup_le(cur, key))

\* a faulty xfs_refcount_merge_center_extent: the left record is rewritten
\* although the second deletion failed
xfs_refcount_merge_center_extent_goon(cur, left, center, extlen, agbno, aglen) ==
    LET Update(d) ==
            MergeUpdate(d.cur, left.rc_startblock,
                        [left EXCEPT !.rc_blockcount = extlen], agbno, 0)
        Deleted(d1) ==
            IF d1.error # 0 THEN MergeRes(d1.cur, agbno, aglen, d1.error)
            ELSE IF center.rc_refcount > 1 THEN Update(xfs_refcount_delete(d1.cur))
            ELSE Update(d1)
        Looked(c1) ==
            IF ~HaveRec(c1) THEN MergeRes(c1, agbno, aglen, EFSCORRUPTED)
            ELSE Deleted(xfs_refcount_delete(c1))
    IN  Looked(xfs_refcount_lookup_ge(cur, center.rc_startblock))

\* xfs_refcount_merge_center_extent
xfs_refcount_merge_center_extent(cur, left, center, extlen, agbno, aglen) ==
    LET Update(d) ==
            IF d.error # 0 THEN MergeRes(d.cur, agbno, aglen, d.error)
            ELSE MergeUpdate(d.cur, left.rc_startblock,
                             [left EXCEPT !.rc_blockcount = extlen], agbno, 0)
        \* a real center record is followed by the right extent
        Deleted(d1) ==
            IF d1.error # 0 THEN MergeRes(d1.cur, agbno, aglen, d1.error)
            ELSE IF center.rc_refcount > 1 THEN Update(xfs_refcount_delete(d1.cur))
            ELSE Update(d1)
        Looked(c1) ==
            IF ~HaveRec(c1) THEN MergeRes(c1, agbno, aglen, EFSCORRUPTED)
            ELSE Deleted(xfs_refcount_delete(c1))
    IN  Looked(xfs_refcount_lookup_ge(cur, center.rc_startblock))

\* the deletion of a real center record that opens xfs_refcount_merge_left_extent
\* and xfs_refcount_merge_right_extent: [cur, error]
DeleteCenter(cur, center) ==
    LET Looked(c1) ==
            IF ~HaveRec(c1)
            THEN [cur |-> c1, error |-> EFSCORRUPTED]
            ELSE xfs_refcount_delete(c1)
    IN  IF center.rc_refcount > 1
        THEN Looked(xfs_refcount_lookup_le(cur, center.rc_startblock))
        ELSE [cur |-> cur, error |-> 0]

\* xfs_refcount_merge_left_extent
xfs_refcount_merge_left_extent(cur, left, cleft, agbno, aglen) ==
    LET Update(d) ==
            IF d.error # 0 THEN MergeRes(d.cur, agbno, aglen, d.error)
            ELSE MergeUpdate(d.cur, left.rc_startblock,
                     [left EXCEPT !.rc_blockcount = @ + cleft.rc_blockcount],
                     agbno + cleft.rc_blockcount,
                     (aglen - cleft.rc_blockcount) % U32)
    IN  Update(DeleteCenter(cur, cleft))

\* xfs_refcount_merge_right_extent
xfs_refcount_merge_right_extent(cur, right, cright, agbno, aglen) ==
    LET Update(d) ==
            IF d.error # 0 THEN MergeRes(d.cur, agbno, aglen, d.error)
            ELSE MergeUpdate(d.cur, right.rc_startblock,
                     [right EXCEPT !.rc_startblock = @ - cright.rc_blockcount,
                                   !.rc_blockcount = @ + cright.rc_blockcount],
                     agbno,
                     (aglen - cright.rc_blockcount) % U32)
    IN  Update(DeleteCenter(cur, cright))

\* the three merge conditions of xfs_refcount_merge_extents
CanMergeCenter(left, cleft, cright, right, adjust) ==
    /\ left.rc_blockcount # 0 /\ right.rc_blockcount # 0
    /\ cleft.rc_blockcount # 0 /\ cright.rc_blockcount # 0
    /\ cleft.rc_startblock = cright.rc_startblock
    /\ cleft.rc_blockcount = cright.rc_blockcount
    /\ left.rc_refcount = RefAdd(cleft.rc_refcount, adjust)
    /\ right.rc_refcount = RefAdd(cleft.rc_refcount, adjust)
    /\ left.rc_blockcount + cleft.rc_blockcount + right.rc_blockcount < MAXREFCEXTLEN
\* a faulty CanMergeLeft: the counts are not compared
CanMergeLeft_anycount(left, cleft, adjust) ==
    /\ left.rc_blockcount # 0 /\ cleft.rc_blockcount # 0
    /\ left.rc_blockcount + cleft.rc_blockcount < MAXREFCEXTLEN
CanMergeLeft(left, cleft, adjust) ==
    /\ left.rc_blockcount # 0 /\ cleft.rc_blockcount # 0
    /\ left.rc_refcount = RefAdd(cleft.rc_refcount, adjust)
    /\ left.rc_blockcount + cleft.rc_blockcount < MAXREFCEXTLEN
\* a faulty CanMergeRight: the right neighbour is never merged
CanMergeRight_never(right, cright, adjust) == FALSE
CanMergeRight(right, cright, adjust) ==
    /\ right.rc_blockcount # 0 /\ cright.rc_blockcount # 0
    /\ right.rc_refcount = RefAdd(cright.rc_refcount, adjust)
    /\ right.rc_blockcount + cright.rc_blockcount < MAXREFCEXTLEN

\* a faulty xfs_refcount_merge_extents: the three-way merge is left out and
\* the right merge is tried even after the left merge took the one center
\* piece
xfs_refcount_merge_extents_notie(cur, agbno, aglen, adjust, flags) ==
    LET With(m, sc) == [cur |-> m.cur, agbno |-> m.agbno, aglen |-> m.aglen,
                        error |-> m.error, shape_changed |-> sc]
        TryRight(ml, left, cleft, right, cright) ==
            IF ml.error # 0 THEN With(ml, TRUE)
            ELSE IF CanMergeRight(right, cright, adjust)
            THEN With(xfs_refcount_merge_right_extent(ml.cur, right, cright,
                                                      ml.agbno, ml.aglen), TRUE)
            ELSE With(ml, TRUE)
        Merge(left, cleft, right, cright) ==
            IF left.rc_blockcount = 0 /\ right.rc_blockcount = 0
            THEN With(MergeRes(cur, agbno, aglen, 0), FALSE)
            ELSE IF CanMergeLeft(left, cleft, adjust)
            THEN TryRight(xfs_refcount_merge_left_extent(cur, left, cleft, agbno, aglen),
                          left, cleft, right, cright)
            ELSE TryRight(MergeRes(cur, agbno, aglen, 0), left, cleft, right, cright)
        Ends(fl, fr) == Merge(fl.left, fl.cleft, fr.right, fr.cright)
    IN  Ends(xfs_refcount_find_left_extents(cur, agbno, aglen, flags),
              xfs_refcount_find_right_extents(cur, agbno, aglen, flags))

\* xfs_refcount_merge_extents: [cur, agbno, aglen, error, shape_changed]
xfs_refcount_merge_extents(cur, agbno, aglen, adjust, flags) ==
    LET With(m, sc) == [cur |-> m.cur, agbno |-> m.agbno, aglen |-> m.aglen,
                        error |-> m.error, shape_changed |-> sc]
        \* try to merge right, after the left merge ml (if any)
        TryRight(ml, left, cleft, right, cright) ==
            IF ml.error # 0 THEN With(ml, TRUE)
            ELSE IF CanMergeLeft(left, cleft, adjust)
                    /\ cleft.rc_startblock = cright.rc_startblock
                    /\ cleft.rc_blockcount = cright.rc_blockcount
            THEN With(ml, TRUE)
            ELSE IF CanMergeRight(right, cright, adjust)
            THEN With(xfs_refcount_merge_right_extent(ml.cur, right, cright,
                                                      ml.agbno, ml.aglen), TRUE)
            ELSE With(ml, TRUE)
        Merge(left, cleft, right, cright) ==
            IF left.rc_blockcount = 0 /\ right.rc_blockcount = 0
            THEN With(MergeRes(cur, agbno, aglen, 0), FALSE)
            ELSE IF CanMergeCenter(left, cleft, cright, right, adjust)
            THEN With(xfs_refcount_merge_center_extent(cur, left, cleft,
                          left.rc_blockcount + cleft.rc_blockcount + right.rc_blockcount,
                          agbno, aglen), TRUE)
            ELSE IF CanMergeLeft(left, cleft, adjust)
            THEN TryRight(xfs_refcount_merge_left_extent(cur, left, cleft, agbno, aglen),
                          left, cleft, right, cright)
            ELSE TryRight(MergeRes(cur, agbno, aglen, 0), left, cleft, right, cright)
        Ends(fl, fr) == Merge(fl.left, fl.cleft, fr.right, fr.cright)
    IN  Ends(xfs_refcount_find_left_extents(cur, agbno, aglen, flags),
              xfs_refcount_find_right_extents(cur, agbno, aglen, flags))

(***************************************************************************)
(* The budget.  tp is the transaction: its log reservation t_log_res and   *)
(* whether the XFS_ERRTAG_REFCOUNT_CONTINUE_UPDATE error tag is set.       *)
(***************************************************************************)
Trans(res, errtag) == [t_log_res |-> res, errtag |-> errtag]

\* a faulty xfs_refcount_still_have_space: a cursor that has done nothing yet
\* is told that there is no space
xfs_refcount_still_have_space_nofirst(cur, tp) ==
    LET overhead == cur.shape_changes * ShapeOverhead
    IN  IF cur.nr_ops > 2 /\ tp.errtag THEN FALSE
        ELSE IF cur.nr_ops = 0 THEN FALSE
        ELSE IF overhead > tp.t_log_res THEN FALSE
        ELSE tp.t_log_res - overhead > cur.nr_ops * BytesPerOp

\* xfs_refcount_still_have_space
xfs_refcount_still_have_space(cur, tp) ==
    LET overhead == cur.shape_changes * ShapeOverhead
    IN  IF cur.nr_ops > 2 /\ tp.errtag THEN FALSE
        ELSE IF cur.nr_ops = 0 THEN TRUE
        ELSE IF overhead > tp.t_log_res THEN FALSE
        ELSE tp.t_log_res - overhead > cur.nr_ops * BytesPerOp

(***************************************************************************)
(* Interior sweep.  The loop state st: the cursor, the rest of the range,  *)
(* the blocks adjusted so far, the extents handed to xfs_bmap_add_free (in *)
(* call order) and the error.                                              *)
(***************************************************************************)
Sweep(cur, agbno, aglen, adjusted, freed, error) ==
    [cur |-> cur, agbno |-> agbno, aglen |-> aglen, adjusted |-> adjusted,
     freed |-> freed, error |-> error]

Extent(s, l) == [start |-> s, len |-> l]
NrOpsInc(cur) == [cur EXCEPT !.nr_ops = @ + 1]

\* the hole in front of ext: cover it (increment) or free it (decrement)
SweepHole(st, ext, adj) ==
    LET Adv(cur, tmp, freed) ==
            Sweep(xfs_refcount_lookup_ge(cur, st.agbno + tmp.rc_blockcount),
                  st.agbno + tmp.rc_blockcount,
                  (st.aglen - tmp.rc_blockcount) % U32,
                  st.adjusted + tmp.rc_blockcount, freed, 0)
        Inserted(ins, tmp) ==
            IF ins.error # 0
            THEN [st EXCEPT !.cur = ins.cur, !.error = ins.error]
            ELSE Adv(NrOpsInc(ins.cur), tmp, st.freed)
        Hole(tmp) ==
            IF tmp.rc_refcount # 0
            THEN Inserted(xfs_refcount_insert(st.cur, tmp), tmp)
            ELSE Adv(st.cur, tmp,
                     Append(st.freed, Extent(tmp.rc_startblock, tmp.rc_blockcount)))
    IN  IF ext.rc_startblock = st.agbno THEN st
        ELSE Hole(Irec(st.agbno,
                       Min(st.aglen, (ext.rc_startblock - st.agbno) % U32),
                       RefAdd(1, adj)))

\* a faulty SweepRecord: the test for MAXREFCOUNT is missing
SweepRecord_wrap(st, ext, adj) ==
    LET Adv(cur, freed) ==
            Sweep(cur, st.agbno + ext.rc_blockcount,
                  (st.aglen - ext.rc_blockcount) % U32,
                  st.adjusted + ext.rc_blockcount, freed, 0)
        Deleted(del) ==
            IF del.error # 0
            THEN [st EXCEPT !.cur = del.cur, !.error = del.error]
            ELSE Adv(NrOpsInc(del.cur), st.freed)
        Adjust(new) ==
            IF new.rc_refcount > 1
            THEN Adv(BtreeIncrement(NrOpsInc(xfs_refcount_update(st.cur, new))),
                     st.freed)
            ELSE IF new.rc_refcount = 1
            THEN Deleted(xfs_refcount_delete(st.cur))
            ELSE Adv(BtreeIncrement(st.cur),
                     Append(st.freed, Extent(ext.rc_startblock, ext.rc_blockcount)))
    IN  Adjust([ext EXCEPT !.rc_refcount = RefAdd(@, adj)])

\* a faulty SweepRecord: a record at MAXREFCOUNT is counted as an operation
SweepRecord_counted(st, ext, adj) ==
    LET Adv(cur, freed) ==
            Sweep(cur, st.agbno + ext.rc_blockcount,
                  (st.aglen - ext.rc_blockcount) % U32,
                  st.adjusted + ext.rc_blockcount, freed, 0)
        Deleted(del) ==
            IF del.error # 0
            THEN [st EXCEPT !.cur = del.cur, !.error = del.error]
            ELSE Adv(NrOpsInc(del.cur), st.freed)
        Adjust(new) ==
            IF new.rc_refcount > 1
            THEN Adv(BtreeIncrement(NrOpsInc(xfs_refcount_update(st.cur, new))),
                     st.freed)
            ELSE IF new.rc_refcount = 1
            THEN Deleted(xfs_refcount_delete(st.cur))
            ELSE Adv(BtreeIncrement(st.cur),
                     Append(st.freed, Extent(ext.rc_startblock, ext.rc_blockcount)))
    IN  IF ext.rc_refcount = MAXREFCOUNT
        THEN Adv(BtreeIncrement(NrOpsInc(st.cur)), st.freed)
        ELSE Adjust([ext EXCEPT !.rc_refcount = RefAdd(@, adj)])

\* the record ext at the start of the range: adjust it, delete it or free it,
\* and step over it
SweepRecord(st, ext, adj) ==
    LET Adv(cur, freed) ==
            Sweep(cur, st.agbno + ext.rc_blockcount,
                  (st.aglen - ext.rc_blockcount) % U32,
                  st.adjusted + ext.rc_blockcount, freed, 0)
        Deleted(del) ==
            IF del.error # 0
            THEN [st EXCEPT !.cur = del.cur, !.error = del.error]
            ELSE Adv(NrOpsInc(del.cur), st.freed)
        Adjust(new) ==
            IF new.rc_refcount > 1
            THEN Adv(BtreeIncrement(NrOpsInc(xfs_refcount_update(st.cur, new))),
                     st.freed)
            ELSE IF new.rc_refcount = 1
            THEN Deleted(xfs_refcount_delete(st.cur))
            ELSE Adv(BtreeIncrement(st.cur),
                     Append(st.freed, Extent(ext.rc_startblock, ext.rc_blockcount)))
    IN  IF ext.rc_refcount = MAXREFCOUNT
        THEN Adv(BtreeIncrement(st.cur), st.freed)
        ELSE Adjust([ext EXCEPT !.rc_refcount = RefAdd(@, adj)])

RECURSIVE SweepLoop(_, _, _)
\* the while loop of xfs_refcount_adjust_extents
SweepLoop(st, adj, tp) ==
    LET Stepped(r) == IF r.error # 0 THEN r ELSE SweepLoop(r, adj, tp)
        Filled(h, ext) ==
            IF h.error # 0 THEN h
            ELSE IF h.aglen = 0 \/ ~xfs_refcount_still_have_space(h.cur, tp) THEN h
            ELSE Stepped(SweepRecord(h, ext, adj))
        Body(ext) == Filled(SweepHole(st, ext, adj), ext)
    IN  IF ~(st.aglen > 0 /\ xfs_refcount_still_have_space(st.cur, tp)) THEN st
        ELSE Body(IF HaveRec(st.cur) THEN GetRec(st.cur) ELSE Irec(AgBlocks, 0, 0))

\* xfs_refcount_adjust_extents
xfs_refcount_adjust_extents(cur, agbno, aglen, adjusted, adj, tp) ==
    IF aglen = 0 THEN Sweep(cur, agbno, aglen, adjusted, <<>>, 0)
    ELSE SweepLoop(Sweep(xfs_refcount_lookup_ge(cur, agbno), agbno, aglen,
                         adjusted, <<>>, 0), adj, tp)

\* xfs_refcount_adjust: [cur, adjusted, freed, error]
xfs_refcount_adjust(cur, agbno, aglen, adj, tp) ==
    LET Res(c, adjusted, freed, error) ==
            [cur |-> c, adjusted |-> adjusted, freed |-> freed, error |-> error]
        Swept(sw) == Res(sw.cur, sw.adjusted, sw.freed, sw.error)
        \* one shape change is counted for the splits and the merge together
        Merged(m, split) ==
            IF m.error # 0 THEN Res(m.cur, 0, <<>>, m.error)
            ELSE Swept(xfs_refcount_adjust_extents(
                     IF split \/ m.shape_changed
                     THEN [m.cur EXCEPT !.shape_changes = @ + 1] ELSE m.cur,
                     m.agbno, m.aglen, (aglen - m.aglen) % U32, adj, tp))
        Split2(s2, split) ==
            IF s2.error # 0 THEN Res(s2.cur, 0, <<>>, s2.error)
            ELSE Merged(xfs_refcount_merge_extents(s2.cur, agbno, aglen, adj,
                                                   XFS_FIND_RCEXT_SHARED),
                        split \/ s2.shape_changed)
        Split1(s1) ==
            IF s1.error # 0 THEN Res(s1.cur, 0, <<>>, s1.error)
            ELSE Split2(xfs_refcount_split_extent(s1.cur, agbno + aglen),
                        s1.shape_changed)
    IN  Split1(xfs_refcount_split_extent(cur, agbno))

(***************************************************************************)
(* CoW staging.                                                            *)
(***************************************************************************)
\* xfs_refcount_adjust_cow_extents, case XFS_REFCOUNT_ADJUST_COW_ALLOC: [cur, error]
CowAllocExtents(cur, ext, agbno, aglen) ==
    IF ~(ext.rc_startblock >= agbno + aglen)
    THEN [cur |-> cur, error |-> EFSCORRUPTED]
    ELSE xfs_refcount_insert(cur, Irec(agbno, aglen, 1))

\* xfs_refcount_adjust_cow_extents, case XFS_REFCOUNT_ADJUST_COW_FREE: [cur, error]
CowFreeExtents(cur, ext, agbno, aglen) ==
    IF ~(ext.rc_startblock = agbno) \/ ~(ext.rc_blockcount = aglen)
       \/ ~(ext.rc_refcount = 1)
    THEN [cur |-> cur, error |-> EFSCORRUPTED]
    ELSE xfs_refcount_delete(cur)

\* xfs_refcount_adjust_cow_extents: [cur, error]; alloc tells the two
\* operations apart
xfs_refcount_adjust_cow_extents(cur, agbno, aglen, alloc) ==
    LET Looked(c1, ext) ==
            IF alloc THEN CowAllocExtents(c1, ext, agbno, aglen)
            ELSE CowFreeExtents(c1, ext, agbno, aglen)
        Find(c1) == Looked(c1, IF HaveRec(c1) THEN GetRec(c1)
                               ELSE Irec(AgBlocks, 0, 0))
    IN  IF aglen = 0 THEN [cur |-> cur, error |-> 0]
        ELSE Find(xfs_refcount_lookup_ge(cur, agbno))

\* xfs_refcount_adjust_cow: [cur, error]
xfs_refcount_adjust_cow(cur, agbno, aglen, alloc) ==
    LET Merged(m) ==
            IF m.error # 0 THEN [cur |-> m.cur, error |-> m.error]
            ELSE xfs_refcount_adjust_cow_extents(m.cur, m.agbno, m.aglen, alloc)
        Split2(s2) ==
            IF s2.error # 0 THEN [cur |-> s2.cur, error |-> s2.error]
            ELSE Merged(xfs_refcount_merge_extents(s2.cur, agbno, aglen,
                            IF alloc THEN XFS_REFCOUNT_ADJUST_COW_ALLOC
                            ELSE XFS_REFCOUNT_ADJUST_COW_FREE,
                            XFS_FIND_RCEXT_COW))
        Split1(s1) ==
            IF s1.error # 0 THEN [cur |-> s1.cur, error |-> s1.error]
            ELSE Split2(xfs_refcount_split_extent(s1.cur, agbno + aglen))
    IN  Split1(xfs_refcount_split_extent(cur, agbno))

(***************************************************************************)
(* The shared-range query.                                                 *)
(***************************************************************************)
Found(fbno, flen) == [fbno |-> fbno, flen |-> flen]

\* a faulty FindEnd: the extent is never extended over the next record
FindEnd_first(cur, f, agbno, aglen) == f

RECURSIVE FindEnd(_, _, _, _)
\* the loop of __xfs_refcount_find_shared that finds the end of the extent
FindEnd(cur, f, agbno, aglen) ==
    IF ~(f.fbno + f.flen < agbno + aglen) THEN f
    ELSE LET c1  == BtreeIncrement(cur)
             tmp == GetRec(c1)
         IN  IF ~HaveRec(c1) THEN f
             ELSE IF tmp.rc_startblock >= agbno + aglen
                     \/ tmp.rc_startblock # f.fbno + f.flen THEN f
             ELSE FindEnd(c1, Found(f.fbno, Min(f.flen + tmp.rc_blockcount,
                                                agbno + aglen - f.fbno)),
                          agbno, aglen)

\* __xfs_refcount_find_shared: [fbno, flen]
xfs_refcount_find_shared(recs, agbno, aglen, find_maximal) ==
    LET skip == Found(agbno + aglen, 0)
        c0   == xfs_refcount_lookup_le(Cur(recs, 0, 0, 0), agbno)
        \* no left extent, look at the next one
        c1   == IF HaveRec(c0) THEN c0 ELSE BtreeIncrement(c0)
        t1   == GetRec(c1)
        \* if the extent ends before the start, look at the next one
        past == t1.rc_startblock + t1.rc_blockcount <= agbno
        c2   == IF past THEN BtreeIncrement(c1) ELSE c1
        t2   == GetRec(c2)
        tmp  == IF t2.rc_startblock < agbno
                THEN Irec(agbno, t2.rc_blockcount - (agbno - t2.rc_startblock),
                          t2.rc_refcount)
                ELSE t2
        f    == Found(tmp.rc_startblock,
                      Min(tmp.rc_blockcount, agbno + aglen - tmp.rc_startblock))
    IN  IF ~HaveRec(c1) THEN skip
        ELSE IF ~HaveRec(c2) THEN skip
        ELSE IF t2.rc_startblock >= agbno + aglen THEN skip
        ELSE IF ~find_maximal THEN f
        ELSE FindEnd(c2, f, agbno, aglen)

(***************************************************************************)
(* Deferred requests.                                                      *)
(***************************************************************************)
NoCursor == [nr_ops |-> 0 - 1, shape_changes |-> 0 - 1]

\* A filesystem block number holds the allocation group number above
\* sb_agblklog bits of block number within the group.  AgSpan is
\* 2^sb_agblklog, the least power of two that holds AgBlocks.
AgSpan == CHOOSE p \in {2 ^ k : k \in 0 .. 16} : p >= AgBlocks /\ p < 2 * AgBlocks
XFS_FSB_TO_AGNO(fsb) == fsb \div AgSpan
XFS_FSB_TO_AGBNO(fsb) == fsb % AgSpan
XFS_AGB_TO_FSB(agno, agbno) == agno * AgSpan + agbno
\* the allocation group whose refcount btree is modelled
TheAg == 1

\* a faulty xfs_refcount_finish_one: *adjusted of a staging request is set
\* whether the request failed or not
xfs_refcount_finish_one_unset(recs, rcur, type, startblock, blockcount, tp, inject) ==
    LET Res(c, r, adjusted, freed, error) ==
            [recs |-> c.recs, rcur |-> r, adjusted |-> adjusted,
             freed |-> freed, error |-> error]
        Counters(c) == [nr_ops |-> c.nr_ops, shape_changes |-> c.shape_changes]
        Adjusted(a) == Res(a.cur, Counters(a.cur), a.adjusted, a.freed, a.error)
        Cowed(c) == Res(c.cur, Counters(c.cur),
                        blockcount, <<>>, c.error)
        Do(cur) ==
            IF inject THEN Res(cur, rcur, 0, <<>>, EIO)
            ELSE IF type = "INCREASE"
            THEN Adjusted(xfs_refcount_adjust(cur, XFS_FSB_TO_AGBNO(startblock),
                                              blockcount,
                                              XFS_REFCOUNT_ADJUST_INCREASE, tp))
            ELSE IF type = "DECREASE"
            THEN Adjusted(xfs_refcount_adjust(cur, XFS_FSB_TO_AGBNO(startblock),
                                              blockcount,
                                              XFS_REFCOUNT_ADJUST_DECREASE, tp))
            ELSE Cowed(xfs_refcount_adjust_cow(cur, XFS_FSB_TO_AGBNO(startblock),
                                               blockcount, type = "ALLOC_COW"))
    IN  Do(IF rcur = NoCursor THEN Cur(recs, 0, 0, 0)
           ELSE Cur(recs, 0, rcur.nr_ops, rcur.shape_changes))

\* xfs_refcount_finish_one: [recs, rcur, adjusted, freed, error].  rcur is
\* *pcur, the cursor kept between calls (NoCursor: NULL); inject is the
\* XFS_ERRTAG_REFCOUNT_FINISH_ONE error tag.
xfs_refcount_finish_one(recs, rcur, type, startblock, blockcount, tp, inject) ==
    LET Res(c, r, adjusted, freed, error) ==
            [recs |-> c.recs, rcur |-> r, adjusted |-> adjusted,
             freed |-> freed, error |-> error]
        Counters(c) == [nr_ops |-> c.nr_ops, shape_changes |-> c.shape_changes]
        Adjusted(a) == Res(a.cur, Counters(a.cur), a.adjusted, a.freed, a.error)
        Cowed(c) == Res(c.cur, Counters(c.cur),
                        IF c.error = 0 THEN blockcount ELSE 0, <<>>, c.error)
        Do(cur) ==
            IF inject THEN Res(cur, rcur, 0, <<>>, EIO)
            ELSE IF type = "INCREASE"
            THEN Adjusted(xfs_refcount_adjust(cur, XFS_FSB_TO_AGBNO(startblock),
                                              blockcount,
                                              XFS_REFCOUNT_ADJUST_INCREASE, tp))
            ELSE IF type = "DECREASE"
            THEN Adjusted(xfs_refcount_adjust(cur, XFS_FSB_TO_AGBNO(startblock),
                                              blockcount,
                                              XFS_REFCOUNT_ADJUST_DECREASE, tp))
            ELSE Cowed(xfs_refcount_adjust_cow(cur, XFS_FSB_TO_AGBNO(startblock),
                                               blockcount, type = "ALLOC_COW"))
    IN  Do(IF rcur = NoCursor THEN Cur(recs, 0, 0, 0)
           ELSE Cur(recs, 0, rcur.nr_ops, rcur.shape_changes))

\* a faulty choice of the cursor: the cursor for another group starts at 0
xfs_refcount_finish_one_cursor_reset(pcur, agno) ==
    IF pcur = NoCursor \/ pcur.agno # agno
    THEN [agno |-> agno, nr_ops |-> 0, shape_changes |-> 0]
    ELSE pcur

\* xfs_refcount_finish_one, the choice of the cursor for a request of the
\* group agno: the cursor handed in (*pcur) is kept when it is one of that
\* group; one of another group is given up and the new cursor gets its
\* nr_ops and shape_changes; with no cursor the new one starts both at 0
xfs_refcount_finish_one_cursor(pcur, agno) ==
    IF pcur # NoCursor /\ pcur.agno # agno
    THEN [agno |-> agno, nr_ops |-> pcur.nr_ops,
          shape_changes |-> pcur.shape_changes]
    ELSE IF pcur = NoCursor
    THEN [agno |-> agno, nr_ops |-> 0, shape_changes |-> 0]
    ELSE pcur

\* the operation codes in pe_flags and the mask of the bits that hold them
\* (the values of the log format); no other bit of pe_flags is allowed
XFS_REFCOUNT_EXTENT_INCREASE == 1
XFS_REFCOUNT_EXTENT_DECREASE == 2
XFS_REFCOUNT_EXTENT_ALLOC_COW == 3
XFS_REFCOUNT_EXTENT_FREE_COW == 4
XFS_REFCOUNT_EXTENT_TYPE_MASK == 255
XFS_REFCOUNT_EXTENT_FLAGS == XFS_REFCOUNT_EXTENT_TYPE_MASK

\* xfs_trans_set_refcount_flags: pe_flags for an intent of the given type
xfs_trans_set_refcount_flags(type) ==
    CASE type = "INCREASE" -> XFS_REFCOUNT_EXTENT_INCREASE
      [] type = "DECREASE" -> XFS_REFCOUNT_EXTENT_DECREASE
      [] type = "ALLOC_COW" -> XFS_REFCOUNT_EXTENT_ALLOC_COW
      [] type = "FREE_COW" -> XFS_REFCOUNT_EXTENT_FREE_COW
      [] OTHER -> 0

\* struct xfs_phys_extent, as written for an intent of the given type
PhysExtent(s, l, type) ==
    [pe_startblock |-> s, pe_len |-> l, pe_flags |-> xfs_trans_set_refcount_flags(type)]
NoExtent == PhysExtent(0, 0, "NONE")

\* a faulty xfs_trans_log_finish_refcount_update: the transaction and the
\* CUD are marked dirty only when the update succeeded
xfs_trans_log_finish_refcount_update_clean(recs, rcur, type, startblock, blockcount, tp, inject) ==
    LET Logged(r) ==
            [recs |-> r.recs, rcur |-> r.rcur, adjusted |-> r.adjusted,
             freed |-> r.freed, error |-> r.error,
             cud |-> PhysExtent(startblock,
                                IF r.error = 0 /\ r.adjusted # blockcount
                                THEN r.adjusted ELSE blockcount,
                                type),
             dirty |-> r.error = 0]
    IN  Logged(xfs_refcount_finish_one(recs, rcur, type, startblock, blockcount,
                                       tp, inject))

\* a faulty xfs_trans_log_finish_refcount_update: the CUD entry keeps the
\* length that was asked for
xfs_trans_log_finish_refcount_update_full(recs, rcur, type, startblock, blockcount, tp, inject) ==
    LET Logged(r) ==
            [recs |-> r.recs, rcur |-> r.rcur, adjusted |-> r.adjusted,
             freed |-> r.freed, error |-> r.error,
             cud |-> PhysExtent(startblock, blockcount, type), dirty |-> TRUE]
    IN  Logged(xfs_refcount_finish_one(recs, rcur, type, startblock, blockcount,
                                       tp, inject))

\* xfs_trans_log_finish_refcount_update: the result of xfs_refcount_finish_one,
\* the entry written to the CUD and the dirty mark of the transaction and of
\* the CUD's descriptor
xfs_trans_log_finish_refcount_update(recs, rcur, type, startblock, blockcount, tp, inject) ==
    LET Logged(r) ==
            [recs |-> r.recs, rcur |-> r.rcur, adjusted |-> r.adjusted,
             freed |-> r.freed, error |-> r.error,
             cud |-> PhysExtent(startblock,
                                IF r.error = 0 /\ r.adjusted # blockcount
                                THEN r.adjusted ELSE blockcount,
                                type),
             dirty |-> TRUE]
    IN  Logged(xfs_refcount_finish_one(recs, rcur, type, startblock, blockcount,
                                       tp, inject))

NoReq == [ri_type |-> "NONE", ri_startblock |-> 0, ri_blockcount |-> 0]
Intent(type, s, l) == [ri_type |-> type, ri_startblock |-> s, ri_blockcount |-> l]

\* the conversion of an unsigned 32-bit value to int, at the model's width
ToInt(x) == IF x >= U32 \div 2 THEN x - U32 ELSE x

\* xfs_refcount_update_diff_items: the difference of the two group numbers,
\* each an xfs_agnumber_t of 32 bits, taken in unsigned 32-bit arithmetic and
\* returned as an int
xfs_refcount_update_diff_items(ra, rb) ==
    ToInt(((XFS_FSB_TO_AGNO(ra.ri_startblock) % U32)
           - (XFS_FSB_TO_AGNO(rb.ri_startblock) % U32)) % U32)

\* xfs_refcount_update_finish_item on the request refc: the results of the
\* update, the request afterwards (rewritten to what is left, or freed:
\* NoReq) and the return value
xfs_refcount_update_finish_item(recs, refc, rcur, tp, inject) ==
    LET Finished(r) ==
            IF r.error = 0 /\ r.adjusted < refc.ri_blockcount
            THEN [recs |-> r.recs, rcur |-> r.rcur, adjusted |-> r.adjusted,
                  freed |-> r.freed, error |-> r.error, cud |-> r.cud,
                  refc |-> Intent(refc.ri_type, refc.ri_startblock + r.adjusted,
                                  refc.ri_blockcount - r.adjusted),
                  ret |-> EAGAIN]
            ELSE [recs |-> r.recs, rcur |-> r.rcur, adjusted |-> r.adjusted,
                  freed |-> r.freed, error |-> r.error, cud |-> r.cud,
                  refc |-> NoReq, ret |-> r.error]
    IN  Finished(xfs_trans_log_finish_refcount_update(
                     recs, rcur, refc.ri_type, refc.ri_startblock,
                     refc.ri_blockcount, tp, inject))

(***************************************************************************)
(* The log items: the intent (CUI) and the done item (CUD).  state tells   *)
(* an item that was never allocated ("none") from a live and a freed one;  *)
(* frees counts the calls of the item's free routine, stale records a use  *)
(* of the item after it was freed.                                         *)
(***************************************************************************)
\* struct xfs_cui_log_item
NoCui ==
    [state |-> "none", cui_nextents |-> 0, cui_next_extent |-> 0,
     cui_extents |-> <<>>, cui_refcount |-> 0, cui_flags |-> {},
     in_ail |-> FALSE, writes |-> <<>>, frees |-> 0, stale |-> FALSE]

\* xfs_cui_init: a zeroed item with nextents slots, the counter at 0 and two
\* references, one of the log and one of the done side
xfs_cui_init(nextents) ==
    [state |-> "live", cui_nextents |-> nextents, cui_next_extent |-> 0,
     cui_extents |-> [i \in 1 .. nextents |-> NoExtent], cui_refcount |-> 2,
     cui_flags |-> {}, in_ail |-> FALSE,
     writes |-> [i \in 1 .. nextents |-> 0], frees |-> 0, stale |-> FALSE]

\* xfs_cui_item_free
xfs_cui_item_free(cuip) ==
    IF cuip.state = "live"
    THEN [cuip EXCEPT !.state = "freed", !.frees = @ + 1]
    ELSE [cuip EXCEPT !.frees = @ + 1, !.stale = TRUE]

\* xfs_cui_release: atomic_dec_and_test; the release that brings the count to
\* zero takes the item off the AIL and frees it
xfs_cui_release(cuip) ==
    IF cuip.state # "live" THEN [cuip EXCEPT !.stale = TRUE]
    ELSE IF cuip.cui_refcount - 1 = 0
    THEN xfs_cui_item_free([cuip EXCEPT !.cui_refcount = 0, !.in_ail = FALSE])
    ELSE [cuip EXCEPT !.cui_refcount = @ - 1]

\* xfs_cui_item_unpin
xfs_cui_item_unpin(cuip) == xfs_cui_release(cuip)

\* xfs_cui_item_unlock; aborted is XFS_LI_ABORTED in li_flags
xfs_cui_item_unlock(cuip, aborted) ==
    IF aborted THEN xfs_cui_item_free(cuip) ELSE cuip

\* xfs_refcount_update_abort_intent
xfs_refcount_update_abort_intent(cuip) == xfs_cui_release(cuip)

\* atomic_inc_return: the value after the increment
atomic_inc_return(v) == v + 1

\* a faulty slot reservation: the counter is read and left as it was
ReserveSlot_stale(cuip) ==
    [cui |-> cuip, next_extent |-> cuip.cui_next_extent]

\* xfs_trans_log_start_refcount_update, the reservation of a slot: the
\* counter is incremented atomically and the slot is the value before
ReserveSlot(cuip) ==
    [cui |-> [cuip EXCEPT !.cui_next_extent = atomic_inc_return(@)],
     next_extent |-> atomic_inc_return(cuip.cui_next_extent) - 1]

\* xfs_trans_log_start_refcount_update, the writes of the slot next_extent
\* (counted from 0); a slot outside the array is a use of memory that is not
\* the item's
FillSlot(cuip, next_extent, type, startblock, blockcount) ==
    IF cuip.state # "live" \/ next_extent \notin 0 .. cuip.cui_nextents - 1
    THEN [cuip EXCEPT !.stale = TRUE]
    ELSE [cuip EXCEPT !.cui_extents[next_extent + 1] =
                          PhysExtent(startblock, blockcount, type),
                      !.writes[next_extent + 1] = @ + 1]

\* struct xfs_cud_log_item; released counts the references of the CUI it has
\* dropped
NoCud ==
    [state |-> "none", cud_nextents |-> 0, cud_next_extent |-> 0,
     cud_extents |-> <<>>, released |-> 0, frees |-> 0, stale |-> FALSE]

\* xfs_cud_init
xfs_cud_init(nextents) ==
    [state |-> "live", cud_nextents |-> nextents, cud_next_extent |-> 0,
     cud_extents |-> [i \in 1 .. nextents |-> NoExtent],
     released |-> 0, frees |-> 0, stale |-> FALSE]

\* xfs_cud_item_free
xfs_cud_item_free(cudp) ==
    IF cudp.state = "live"
    THEN [cudp EXCEPT !.state = "freed", !.frees = @ + 1]
    ELSE [cudp EXCEPT !.frees = @ + 1, !.stale = TRUE]

\* the lsn a log item's iop_committed is handed
CommitLsn == 1

\* a faulty xfs_cud_item_unlock: the aborted CUD is freed and the CUI keeps
\* the reference
xfs_cud_item_unlock_keep(cuip, cudp, aborted) ==
    IF cudp.state # "live" THEN [cui |-> cuip, cud |-> [cudp EXCEPT !.stale = TRUE]]
    ELSE IF aborted
    THEN [cui |-> cuip, cud |-> xfs_cud_item_free(cudp)]
    ELSE [cui |-> cuip, cud |-> cudp]

\* xfs_cud_item_unlock: [cui, cud]; aborted is XFS_LI_ABORTED in li_flags
xfs_cud_item_unlock(cuip, cudp, aborted) ==
    IF cudp.state # "live" THEN [cui |-> cuip, cud |-> [cudp EXCEPT !.stale = TRUE]]
    ELSE IF aborted
    THEN [cui |-> xfs_cui_release(cuip),
          cud |-> xfs_cud_item_free([cudp EXCEPT !.released = @ + 1])]
    ELSE [cui |-> cuip, cud |-> cudp]

\* a faulty xfs_cud_item_committed: the reference of the CUI is kept
xfs_cud_item_committed_keep(cuip, cudp, lsn) ==
    IF cudp.state # "live"
    THEN [cui |-> cuip, cud |-> [cudp EXCEPT !.stale = TRUE], lsn |-> 0 - 1]
    ELSE [cui |-> cuip, cud |-> xfs_cud_item_free(cudp), lsn |-> 0 - 1]

\* xfs_cud_item_committed: [cui, cud, lsn]; the lsn returned is -1
xfs_cud_item_committed(cuip, cudp, lsn) ==
    IF cudp.state # "live"
    THEN [cui |-> cuip, cud |-> [cudp EXCEPT !.stale = TRUE], lsn |-> 0 - 1]
    ELSE [cui |-> xfs_cui_release(cuip),
          cud |-> xfs_cud_item_free([cudp EXCEPT !.released = @ + 1]),
          lsn |-> 0 - 1]

(***************************************************************************)
(* Log recovery of an intent: xfs_cui_recover.                             *)
(***************************************************************************)
ENOSPC == -28

\* sizeof(struct xfs_phys_extent) and sizeof(struct xfs_cui_log_format), the
\* header and one extent, in bytes
PhysExtentSize == 16
CuiFormatSize == 2 * PhysExtentSize
\* XFS_LI_CUI, the type written to the header
XFS_LI_CUI == 4674

\* the header of a struct xfs_cui_log_format
CuiHeader(type, size, nextents, id) ==
    [cui_type |-> type, cui_size |-> size, cui_nextents |-> nextents, cui_id |-> id]

\* the extents that lie whole within the first len bytes of a format
\* structure
ExtentsIn(len) == (len - (CuiFormatSize - PhysExtentSize)) \div PhysExtentSize

\* xfs_cui_item_sizeof: an int
xfs_cui_item_sizeof(cuip) ==
    ToInt((CuiFormatSize + ((cuip.cui_nextents - 1) % U32) * PhysExtentSize) % U32)

\* xfs_cui_item_format: cui_type and cui_size are set and xfs_cui_item_sizeof
\* bytes of cui_format are copied to the log vector; id is cui_id, set by
\* xfs_cui_init.  The log iovec is i_len bytes, a header and the extents after
\* it
xfs_cui_item_format(cuip, id) ==
    [i_len |-> xfs_cui_item_sizeof(cuip),
     header |-> CuiHeader(XFS_LI_CUI, 1, cuip.cui_nextents, id),
     extents |-> SubSeq(cuip.cui_extents, 1, ExtentsIn(xfs_cui_item_sizeof(cuip)))]

\* xfs_cui_copy_format: [ret, dst].  len is a uint; memcpy writes the header
\* and the extents that lie within len bytes over the destination
xfs_cui_copy_format(buf, dst) ==
    LET len == (CuiFormatSize
                + ((buf.header.cui_nextents - 1) % U32) * PhysExtentSize) % U32
    IN  IF buf.i_len = len
        THEN [ret |-> 0,
              dst |-> [header |-> buf.header,
                       extents |-> [k \in 1 .. Len(dst.extents) |->
                                       IF k <= ExtentsIn(len)
                                       THEN buf.extents[k]
                                       ELSE dst.extents[k]]]]
        ELSE [ret |-> EFSCORRUPTED, dst |-> dst]
\* the number of allocation groups (sb_agcount) and of blocks (sb_dblocks)
AgCount == 2
sb_dblocks == AgCount * AgBlocks

\* pe_flags & XFS_REFCOUNT_EXTENT_TYPE_MASK
FlagsType(flags) == flags % (XFS_REFCOUNT_EXTENT_TYPE_MASK + 1)
\* pe_flags & ~XFS_REFCOUNT_EXTENT_FLAGS
FlagsOutside(flags) == flags - (flags % (XFS_REFCOUNT_EXTENT_FLAGS + 1))
\* the switch on the operation code; "NONE" is its default branch
IntentType(flags) ==
    CASE FlagsType(flags) = XFS_REFCOUNT_EXTENT_INCREASE -> "INCREASE"
      [] FlagsType(flags) = XFS_REFCOUNT_EXTENT_DECREASE -> "DECREASE"
      [] FlagsType(flags) = XFS_REFCOUNT_EXTENT_ALLOC_COW -> "ALLOC_COW"
      [] FlagsType(flags) = XFS_REFCOUNT_EXTENT_FREE_COW -> "FREE_COW"
      [] OTHER -> "NONE"
\* XFS_BB_TO_FSB(mp, XFS_FSB_TO_DADDR(mp, fsb)): the number of the block
\* counted from the start of the device
StartblockFsb(fsb) == XFS_FSB_TO_AGNO(fsb) * AgBlocks + XFS_FSB_TO_AGBNO(fsb)

\* the test that xfs_cui_recover makes of one extent
ExtentBad(refc) ==
    \/ IntentType(refc.pe_flags) = "NONE"
    \/ StartblockFsb(refc.pe_startblock) = 0
    \/ refc.pe_len = 0
    \/ StartblockFsb(refc.pe_startblock) >= sb_dblocks
    \/ refc.pe_len >= AgBlocks
    \/ FlagsOutside(refc.pe_flags) # 0

\* a faulty first loop: only the first extent is tested
CuiBad_first(cuip) == ExtentBad(cuip.cui_extents[1])

\* the first loop of xfs_cui_recover: some extent of the CUI is bad
CuiBad(cuip) ==
    \E i \in 1 .. cuip.cui_nextents : ExtentBad(cuip.cui_extents[i])

\* a faulty LogDone: the count of the CUD is not cut down after an extent
\* that was finished in part
LogDone_kept(cudp, entry, partial) ==
    IF cudp.state # "live" \/ cudp.cud_next_extent >= cudp.cud_nextents
    THEN [cudp EXCEPT !.stale = TRUE]
    ELSE [cudp EXCEPT !.cud_extents[cudp.cud_next_extent + 1] = entry,
                      !.cud_next_extent = @ + 1]

\* xfs_trans_log_finish_refcount_update, what it does to the CUD: the entry
\* is written to the next slot, and after a partial update the CUD ends there
LogDone(cudp, entry, partial) ==
    IF cudp.state # "live" \/ cudp.cud_next_extent >= cudp.cud_nextents
    THEN [cudp EXCEPT !.stale = TRUE]
    ELSE [cudp EXCEPT !.cud_extents[cudp.cud_next_extent + 1] = entry,
                      !.cud_next_extent = @ + 1,
                      !.cud_nextents = IF partial THEN cudp.cud_next_extent + 1
                                       ELSE @]

\* a faulty requeue: the whole extent is queued again
Remainder_whole(type, refc, adjusted) ==
    Intent(type, refc.pe_startblock, refc.pe_len)

\* what xfs_cui_recover queues of an extent of which adjusted blocks are done
Remainder(type, refc, adjusted) ==
    Intent(type, refc.pe_startblock + adjusted, refc.pe_len - adjusted)

\* a call of xfs_refcount_finish_one made for the recovery: what was asked,
\* what was done and the error; queued tells the calls made by
\* xfs_defer_finish from those of the replay loop
Finish(type, startblock, blockcount, adjusted, error, queued) ==
    [type |-> type, startblock |-> startblock, blockcount |-> blockcount,
     adjusted |-> adjusted, error |-> error, queued |-> queued]

\* xfs_defer_finish on the requests queued by the recovery: each is finished
\* by xfs_refcount_update_finish_item; the cursor is kept from one request to
\* the next, and after -EAGAIN the rest of the request goes first in a new
\* transaction with a new cursor.  calls are the calls made so far, fail the
\* number of the call in which the error tag fires.  [recs, error, calls]
RECURSIVE xfs_defer_finish(_, _, _, _, _, _)
xfs_defer_finish(recs, queue, rcur, tp, calls, fail) ==
    LET refc == Head(queue)
        Made(r) ==
            Append(calls, Finish(refc.ri_type, refc.ri_startblock,
                                 refc.ri_blockcount, r.adjusted, r.error, TRUE))
        After(r) ==
            IF r.ret = EAGAIN
            THEN xfs_defer_finish(r.recs, <<r.refc>> \o Tail(queue), NoCursor, tp,
                                  Made(r), fail)
            ELSE IF r.ret # 0
            THEN [recs |-> r.recs, error |-> r.ret, calls |-> Made(r)]
            ELSE xfs_defer_finish(r.recs, Tail(queue), r.rcur, tp, Made(r), fail)
    IN  IF queue = <<>> THEN [recs |-> recs, error |-> 0, calls |-> calls]
        ELSE After(xfs_refcount_update_finish_item(recs, refc, rcur, tp,
                                                   Len(calls) + 1 = fail))

\* the state of the second loop of xfs_cui_recover
Replay(recs, rcur, cudp, queue, requeue_only, dirty, error, calls) ==
    [recs |-> recs, rcur |-> rcur, cud |-> cudp, queue |-> queue,
     requeue_only |-> requeue_only, dirty |-> dirty, error |-> error,
     calls |-> calls]

\* a faulty requeue: the extents after the one queued again are replayed
Requeued_goes_on(s, request) ==
    Replay(s.recs, s.rcur, s.cud, Append(s.queue, request), s.requeue_only,
           s.dirty, 0, s.calls)

\* the state of the loop once a request was queued again: from here on the
\* extents are only queued (requeue_only = true)
Requeued(s, request) ==
    Replay(s.recs, s.rcur, s.cud, Append(s.queue, request), TRUE, s.dirty, 0,
           s.calls)

\* the second loop of xfs_cui_recover from extent i on: each extent is
\* replayed by xfs_trans_log_finish_refcount_update with the one cursor, or,
\* after an extent that was not finished, only queued again
RECURSIVE ReplayLoop(_, _, _, _, _)
ReplayLoop(cuip, st, i, tp, fail) ==
    LET refc == cuip.cui_extents[i]
        type == IntentType(refc.pe_flags)
        Requeue(s, adjusted) ==
            IF adjusted < refc.pe_len
            THEN ReplayLoop(cuip, Requeued(s, Remainder(type, refc, adjusted)),
                            i + 1, tp, fail)
            ELSE ReplayLoop(cuip, s, i + 1, tp, fail)
        Made(r) ==
            Append(st.calls, Finish(type, refc.pe_startblock, refc.pe_len,
                                    r.adjusted, r.error, FALSE))
        Finished(r) ==
            IF r.error # 0
            THEN Replay(r.recs, r.rcur,
                        LogDone(st.cud, r.cud, FALSE),
                        st.queue, st.requeue_only, st.dirty \/ r.dirty, r.error,
                        Made(r))
            ELSE Requeue(Replay(r.recs, r.rcur,
                                LogDone(st.cud, r.cud, r.adjusted # refc.pe_len),
                                st.queue, st.requeue_only, st.dirty \/ r.dirty, 0,
                                Made(r)),
                         r.adjusted)
    IN  IF i > cuip.cui_nextents THEN st
        ELSE IF type = "NONE" THEN [st EXCEPT !.error = EFSCORRUPTED]
        ELSE IF st.requeue_only THEN Requeue(st, 0)
        ELSE Finished(xfs_trans_log_finish_refcount_update(
                          st.recs, st.rcur, type, refc.pe_startblock,
                          refc.pe_len, tp, Len(st.calls) + 1 = fail))

\* xfs_cui_recover: [recs, cui, cud, ret, opened, committed, queued, calls].
\* reserve_error is the result of xfs_trans_alloc and fail the number of the
\* call of xfs_refcount_finish_one in which the error tag fires (0: none);
\* opened tells whether a transaction was allocated, committed whether it
\* was committed, queued the requests handed to xfs_defer_finish, calls the
\* calls of xfs_refcount_finish_one in their order
xfs_cui_recover(recs, cuip, tp, reserve_error, fail) ==
    LET Res(rs, c, d, ret, opened, committed, queued, calls) ==
            [recs |-> rs, cui |-> c, cud |-> d, ret |-> ret, opened |-> opened,
             committed |-> committed, queued |-> queued, calls |-> calls]
        Recovered(c) == [c EXCEPT !.cui_flags = @ \cup {"XFS_CUI_RECOVERED"}]
        \* abort_error: xfs_trans_cancel, which aborts the items of a dirty
        \* transaction
        Cancelled(rs, u, error, queued, calls) ==
            Res(rs, u.cui, u.cud, error, TRUE, FALSE, queued, calls)
        Abort(rs, cudp, dirty, error, queued, calls) ==
            Cancelled(rs, xfs_cud_item_unlock(cuip, cudp, dirty), error, queued,
                      calls)
        \* xfs_trans_commit
        Committed(rs, u, queued, calls) ==
            Res(rs, u.cui, u.cud, 0, TRUE, TRUE, queued, calls)
        Deferred(st, d) ==
            IF d.error # 0
            THEN Abort(d.recs, st.cud, st.dirty, d.error, st.queue, d.calls)
            ELSE Committed(d.recs,
                           xfs_cud_item_unlock(Recovered(cuip), st.cud, FALSE),
                           st.queue, d.calls)
        Replayed(st) ==
            IF st.error # 0
            THEN Abort(st.recs, st.cud, st.dirty, st.error, st.queue, st.calls)
            ELSE Deferred(st, xfs_defer_finish(st.recs, st.queue, NoCursor, tp,
                                               st.calls, fail))
    IN  IF CuiBad(cuip)
        THEN Res(recs, xfs_cui_release(Recovered(cuip)), NoCud, EIO,
                 FALSE, FALSE, <<>>, <<>>)
        ELSE IF reserve_error # 0
        THEN Res(recs, cuip, NoCud, reserve_error, FALSE, FALSE, <<>>, <<>>)
        ELSE Replayed(ReplayLoop(cuip,
                                 Replay(recs, NoCursor,
                                        xfs_cud_init(cuip.cui_nextents),
                                        <<>>, FALSE, FALSE, 0, <<>>),
                                 1, tp, fail))

(***************************************************************************)
(* The state machine: one allocation group, one deferred request at a time.*)
(***************************************************************************)
VARIABLES
    recs,     \* the records of the refcount btree, in btree order
    ri,       \* the struct xfs_refcount_intent being processed, or NoReq
    staged,   \* the blocks staged by ALLOC_COW and not yet unstaged
    call,     \* the last call: its arguments, the records before it, its results
    rq,       \* the request being finished: as first submitted, with the records
              \* before its first call and the extents its calls have freed
    cui,      \* the intent item
    cud,      \* the done item of the intent
    prod,     \* the callers of xfs_trans_log_start_refcount_update: where each
              \* is in its call and the slot it has reserved
    lg,       \* the transactions of the two items and the log's hold on the CUI
    rcv,      \* the last run of xfs_cui_recover: the records before it and
              \* its results
    fn        \* the last call of a function taken on its own: its name, its
              \* arguments and what it returned

\* the variables of the refcount btree and of the log items
bvars == <<recs, ri, staged, call, rq>>
ivars == <<cui, cud, prod, lg>>
vars == <<recs, ri, staged, call, rq, cui, cud, prod, lg, rcv, fn>>

\* a call: its arguments, the records before it and its results; of a
\* deferred update also whether its cursor was new (fresh), the entry written
\* to the CUD and the value returned to xfs_defer_finish
Call(type, agbno, aglen, pre, adjusted, freed, error, found, maximal, fresh, done, ret) ==
    [type |-> type, agbno |-> agbno, aglen |-> aglen, pre |-> pre,
     adjusted |-> adjusted, freed |-> freed, error |-> error,
     fbno |-> found.fbno, flen |-> found.flen, find_maximal |-> maximal,
     fresh |-> fresh, cud |-> done, ret |-> ret]
NoCall == Call("NONE", 0, 0, <<>>, 0, <<>>, 0, Found(0, 0), FALSE,
               FALSE, NoExtent, 0)

Request(type, agbno, aglen, pre, freed) ==
    [type |-> type, agbno |-> agbno, aglen |-> aglen, pre |-> pre, freed |-> freed]
NoRequest == Request("NONE", 0, 0, <<>>, <<>>)

Blocks(s, l) == s .. (s + l - 1)
Ranges == {<<b, l>> \in (0 .. AgBlocks - 1) \X (1 .. AgBlocks) : b + l <= AgBlocks}

\* the cursors a request may be handed: none, or one that has counted the
\* work done earlier in the same transaction
Cursors == {NoCursor} \cup
           [nr_ops : 1 .. MaxNrOps, shape_changes : 0 .. MaxShapeChanges]

\* the records are in key order, disjoint and inside the allocation group
Sorted(rs) ==
    \A i \in 1 .. Len(rs) - 1 : RCNEXT(rs[i]) <= rs[i + 1].rc_startblock
WellFormed(rs) ==
    /\ Sorted(rs)
    /\ \A i \in 1 .. Len(rs) :
          /\ rs[i].rc_blockcount > 0
          /\ RCNEXT(rs[i]) <= AgBlocks
          /\ rs[i].rc_refcount \in 1 .. MAXREFCOUNT

\* A failed update aborts the transaction and shuts the filesystem down
\* (xfs_trans_refcount.c:163-169); the btree lookups are meaningful on a
\* well-formed index only.
Running == call.error = 0 /\ WellFormed(recs)
\* no call is in progress
Idle == Running /\ call = NoCall

\* the callers of xfs_trans_log_start_refcount_update, one for each slot
Producers == 1 .. MaxExtents
NoProducer == [pc |-> "idle", next_extent |-> 0]
\* no transaction holds a log item
NoLog ==
    [tx |-> "none", t_dirty |-> FALSE, lid_dirty |-> FALSE, unpinned |-> FALSE,
     done |-> "pending", cud_tx |-> "none", lsn |-> 0]

\* xfs_cui_recover has not run
NoRecovery ==
    [pre |-> <<>>, ret |-> 0, opened |-> FALSE, committed |-> FALSE,
     queued |-> <<>>, calls |-> <<>>, ran |-> FALSE]

\* no request is being processed
\* no function has been called on its own
NoFn == [op |-> "none"]

NoUpdate ==
    /\ recs = <<>>
    /\ ri = NoReq
    /\ staged = {}
    /\ call = NoCall
    /\ rq = NoRequest
\* no log item exists
NoItems ==
    /\ cui = NoCui
    /\ cud = NoCud
    /\ prod = [t \in Producers |-> NoProducer]
    /\ lg = NoLog
    /\ rcv = NoRecovery
    /\ fn = NoFn

Init == NoUpdate /\ NoItems

\* a step of xfs_defer_finish: xfs_refcount_update_finish_item on the request
\* refc; first tells a new request from a requeued remainder
FinishItem(refc, rcur, tp, inject, first) ==
    LET type  == refc.ri_type
        agbno == XFS_FSB_TO_AGBNO(refc.ri_startblock)
        aglen == refc.ri_blockcount
        Done(r) ==
            /\ recs' = r.recs
            /\ ri' = r.refc
            /\ staged' = IF r.error # 0 THEN staged
                         ELSE IF type = "ALLOC_COW"
                         THEN staged \cup Blocks(agbno, aglen)
                         ELSE IF type = "FREE_COW"
                         THEN staged \ Blocks(agbno, aglen)
                         ELSE staged
            /\ call' = Call(type, agbno, aglen, recs, r.adjusted, r.freed, r.error,
                            Found(0, 0), FALSE, rcur = NoCursor, r.cud, r.ret)
            /\ rq' = IF first THEN Request(type, agbno, aglen, recs, r.freed)
                     ELSE [rq EXCEPT !.freed = @ \o r.freed]
            /\ UNCHANGED <<ivars, rcv, fn>>
    IN  Done(xfs_refcount_update_finish_item(recs, refc, rcur, tp, inject))

\* __xfs_refcount_add: the request for the blocks rg of the group
Add(type, rg) == Intent(type, XFS_AGB_TO_FSB(TheAg, rg[1]), rg[2])

\* The blocks of an increase or decrease are mapped to a file
\* (xfs_refcount.c:222-226), which CoW staging blocks are not
\* (xfs_refcount.c:1322-1323).
Mapped(type, rg) ==
    type \in {"INCREASE", "DECREASE"} => Blocks(rg[1], rg[2]) \cap staged = {}

\* xfs_refcount_increase_extent, finished by xfs_refcount_update_finish_item
\* with the cursor and the transaction it is handed
Increase ==
    /\ Idle
    /\ ri = NoReq
    /\ \E rg \in Ranges, rcur \in Cursors, errtag \in BOOLEAN :
          /\ Mapped("INCREASE", rg)
          /\ FinishItem(Add("INCREASE", rg), rcur, Trans(LogRes, errtag), FALSE, TRUE)

\* xfs_refcount_decrease_extent, finished by xfs_refcount_update_finish_item
Decrease ==
    /\ Idle
    /\ ri = NoReq
    /\ \E rg \in Ranges, rcur \in Cursors, errtag \in BOOLEAN :
          /\ Mapped("DECREASE", rg)
          /\ FinishItem(Add("DECREASE", rg), rcur, Trans(LogRes, errtag), FALSE, TRUE)

\* xfs_refcount_alloc_cow_extent, finished by xfs_refcount_update_finish_item
\* (CoW staging reads no budget)
AllocCow ==
    /\ Idle
    /\ ri = NoReq
    /\ \E rg \in Ranges :
          FinishItem(Add("ALLOC_COW", rg), NoCursor, Trans(LogRes, FALSE), FALSE, TRUE)

\* xfs_refcount_free_cow_extent, finished by xfs_refcount_update_finish_item
FreeCow ==
    /\ Idle
    /\ ri = NoReq
    /\ \E rg \in Ranges :
          FinishItem(Add("FREE_COW", rg), NoCursor, Trans(LogRes, FALSE), FALSE, TRUE)

\* the requeued remainder of a request (-EAGAIN) is finished in a new
\* transaction, with a new cursor
Resubmit ==
    /\ Idle
    /\ ri # NoReq
    /\ \E errtag \in BOOLEAN, inject \in BOOLEAN :
          FinishItem(ri, NoCursor, Trans(LogRes, errtag), inject, FALSE)

\* xfs_refcount_find_shared
FindShared ==
    /\ Idle
    /\ \E rg \in Ranges, maximal \in BOOLEAN :
          call' = Call("FIND_SHARED", rg[1], rg[2], recs, 0, <<>>, 0,
                       xfs_refcount_find_shared(recs, rg[1], rg[2], maximal),
                       maximal, FALSE, NoExtent, 0)
    /\ UNCHANGED <<recs, ri, staged, rq, cui, cud, prod, lg, rcv, fn>>

\* xfs_refcount_finish_one_cleanup with error == 0: the call is over, the
\* cursor is deleted; a finished request is forgotten
FinishCleanup ==
    /\ Running
    /\ call # NoCall
    /\ call' = NoCall
    /\ rq' = IF ri = NoReq THEN NoRequest ELSE rq
    /\ UNCHANGED <<recs, ri, staged, cui, cud, prod, lg, rcv, fn>>

Next ==
    \/ Increase
    \/ Decrease
    \/ AllocCow
    \/ FreeCow
    \/ Resubmit
    \/ FindShared
    \/ FinishCleanup

Spec == Init /\ [][Next]_vars

(***************************************************************************)
(* Properties.  Blocks are judged by their effective count: the count of   *)
(* the covering record, or 1 where no record covers the block.             *)
(***************************************************************************)
AllBlocks == 0 .. AgBlocks - 1
Covering(rs, b) ==
    {i \in 1 .. Len(rs) : rs[i].rc_startblock <= b /\ b < RCNEXT(rs[i])}
Covered(rs, b) == Covering(rs, b) # {}
Eff(rs, b) ==
    IF Covered(rs, b) THEN rs[CHOOSE i \in Covering(rs, b) : TRUE].rc_refcount ELSE 1
\* how often block b was handed to xfs_bmap_add_free
FreedCount(freed, b) ==
    Cardinality({k \in 1 .. Len(freed) :
                    freed[k].start <= b /\ b < freed[k].start + freed[k].len})
OnlyShared(rs) == \A i \in 1 .. Len(rs) : rs[i].rc_refcount \in 2 .. MAXREFCOUNT - 1
AdjustCall == call.type \in {"INCREASE", "DECREASE"}
CowCall == call.type \in {"ALLOC_COW", "FREE_COW"}
Delta(type) == IF type = "INCREASE" THEN 1 ELSE 0 - 1
InCall(b) == b \in Blocks(call.agbno, call.aglen)

\* C1: after every operation the stored records are in ascending start order
\* and no two of them overlap.
C1_SortedDisjoint == Sorted(recs)

\* C2: on an index of shared records only (2 <= count < MAXREFCOUNT), a call
\* of xfs_refcount_adjust that returns adjusted == aglen changes the effective
\* count of every block of the range by exactly delta (a block going from 1
\* to 0 is freed once and left uncovered) and leaves every other block alone.
C2_AdjustExact ==
    (AdjustCall /\ call.error = 0 /\ call.adjusted = call.aglen
        /\ OnlyShared(call.pre)) =>
    /\ Sorted(recs)
    /\ \A b \in AllBlocks :
          IF InCall(b)
          THEN IF Eff(call.pre, b) + Delta(call.type) = 0
               THEN FreedCount(call.freed, b) = 1 /\ ~Covered(recs, b)
               ELSE /\ Eff(recs, b) = Eff(call.pre, b) + Delta(call.type)
                    /\ FreedCount(call.freed, b) = 0
          ELSE Eff(recs, b) = Eff(call.pre, b) /\ FreedCount(call.freed, b) = 0

\* a complete decrease over a range that holds both an uncovered block and a
\* shared record, on an index of shared records only
C2_Witness ==
    /\ call.type = "DECREASE" /\ call.error = 0 /\ call.adjusted = call.aglen
    /\ OnlyShared(call.pre)
    /\ \E b \in AllBlocks : InCall(b) /\ ~Covered(call.pre, b)
    /\ \E b \in AllBlocks : InCall(b) /\ Eff(call.pre, b) = 3
    /\ \E b \in AllBlocks : ~InCall(b) /\ Covered(call.pre, b)

\* C3: every stored record with count == 1 is a CoW staging record: its
\* blocks were staged by stage-cow and not unstaged since.
C3_CountOneIsStaged ==
    \A i \in 1 .. Len(recs) :
        recs[i].rc_refcount = 1 =>
            Blocks(recs[i].rc_startblock, recs[i].rc_blockcount) \subseteq staged

\* C4: a decrease request hands a block to the free list at most once, only
\* if the block is in its range and had an effective count of 1 before the
\* request; once the request is finished, every such block has been freed.
C4_FreedIffLast ==
    (call.type = "DECREASE" /\ call.error = 0) =>
    \A b \in AllBlocks :
        LET last == /\ b \in Blocks(rq.agbno, rq.aglen)
                    /\ Eff(rq.pre, b) = 1
        IN  /\ FreedCount(rq.freed, b) <= 1
            /\ FreedCount(rq.freed, b) = 1 => last
            /\ (ri = NoReq /\ last) => FreedCount(rq.freed, b) = 1

\* C5: a CoW staging record is never merged with a shared record:
\* xfs_refcount_adjust leaves every count == 1 record as it was, under no
\* shared record, and xfs_refcount_adjust_cow leaves every block of a
\* count >= 2 record under a record of that count.
C5_NeverMerged ==
    /\ AdjustCall =>
          \A i \in 1 .. Len(call.pre) :
              call.pre[i].rc_refcount = 1 =>
                  /\ \E j \in 1 .. Len(recs) : recs[j] = call.pre[i]
                  /\ \A b \in Blocks(call.pre[i].rc_startblock,
                                     call.pre[i].rc_blockcount) :
                        \A j \in Covering(recs, b) : recs[j].rc_refcount = 1
    /\ CowCall =>
          \A b \in AllBlocks :
              Eff(call.pre, b) >= 2 =>
                  /\ Covered(recs, b)
                  /\ \A j \in Covering(recs, b) :
                        recs[j].rc_refcount = Eff(call.pre, b)

\* the blocks of the call's range that a record covered before the call
Overlapped == {b \in AllBlocks : InCall(b) /\ Covered(call.pre, b)}
\* every block keeps the record count it had before the call
CoverKept ==
    \A b \in AllBlocks :
        Covered(call.pre, b) =>
            /\ Covered(recs, b)
            /\ \A j \in Covering(recs, b) : recs[j].rc_refcount = Eff(call.pre, b)
\* rs without its i-th record
Without(rs, i) == SubSeq(rs, 1, i - 1) \o SubSeq(rs, i + 1, Len(rs))

\* C6: stage-cow on [agbno, agbno+aglen) fails with EFSCORRUPTED if a stored
\* record overlaps the range, whatever lies next to it, and otherwise inserts
\* the record {agbno, aglen, 1}.
C6_StageInsertsOrCorrupt ==
    call.type = "ALLOC_COW" =>
        IF Overlapped # {}
        THEN call.error = EFSCORRUPTED
        ELSE /\ call.error = 0
             /\ \E j \in 1 .. Len(recs) : recs[j] = Irec(call.agbno, call.aglen, 1)

\* C7: unstage-cow succeeds only if the stored record {agbno, aglen, 1}
\* matches the range, and then deletes exactly that record; in every other
\* case it fails with EFSCORRUPTED and takes no record away.
C7_UnstageExactOrCorrupt ==
    call.type = "FREE_COW" =>
        LET match == {i \in 1 .. Len(call.pre) :
                         call.pre[i] = Irec(call.agbno, call.aglen, 1)}
        IN  /\ call.error = 0 =>
                 \E i \in match : recs = Without(call.pre, i)
            /\ match = {} => call.error = EFSCORRUPTED /\ CoverKept

\* C8: a find-shared-range query over a range that contains a staged extent
\* (a count == 1 record of staged blocks) reports none of its blocks.
C8_FindSharedSkipsStaged ==
    call.type = "FIND_SHARED" =>
        \A i \in 1 .. Len(call.pre) :
            LET E == Blocks(call.pre[i].rc_startblock, call.pre[i].rc_blockcount)
            IN  (/\ call.pre[i].rc_refcount = 1
                 /\ E \subseteq staged
                 /\ E \subseteq Blocks(call.agbno, call.aglen)) =>
                    E \cap Blocks(call.fbno, call.flen) = {}

\* C9: on a disjoint index the query answers a range inside the query that
\* starts at the lowest covered block of the query; it is empty, at the query
\* end, exactly when no record overlaps the query; without find_maximal it is
\* the first overlapping record clipped to the query, with find_maximal it
\* runs on over every record that starts where the range so far ends.
C9_FindSharedRange ==
    (call.type = "FIND_SHARED" /\ Sorted(call.pre)) =>
        LET qend == call.agbno + call.aglen
            fend == call.fbno + call.flen
            first == SetMin(Overlapped)
            rec  == call.pre[CHOOSE i \in Covering(call.pre, first) : TRUE]
        IN  IF Overlapped = {}
            THEN call.fbno = qend /\ call.flen = 0
            ELSE /\ call.fbno = first
                 /\ call.flen > 0
                 /\ fend <= qend
                 /\ ~call.find_maximal => fend = Min(RCNEXT(rec), qend)
                 /\ call.find_maximal =>
                       /\ Blocks(call.fbno, call.flen) \subseteq Overlapped
                       /\ fend = qend \/ ~Covered(call.pre, fend)

\* a maximal query that starts in a hole and runs over two adjoining records
C9_Witness ==
    /\ call.type = "FIND_SHARED" /\ call.find_maximal
    /\ Sorted(call.pre)
    /\ call.fbno > call.agbno
    /\ \E i \in 1 .. Len(call.pre) :
          /\ call.fbno <= call.pre[i].rc_startblock
          /\ RCNEXT(call.pre[i]) = call.fbno + call.flen
          /\ call.pre[i].rc_startblock > call.fbno

\* a call of xfs_refcount_adjust(INCREASE) that did the whole range
IncreaseDone ==
    /\ call.type = "INCREASE" /\ call.error = 0 /\ call.adjusted = call.aglen
    /\ WellFormed(recs)
\* the decrease of the same range, with a new cursor and transaction
DecreaseAfter ==
    xfs_refcount_adjust(Cur(recs, 0, 0, 0), call.agbno, call.aglen,
                        XFS_REFCOUNT_ADJUST_DECREASE, Trans(LogRes, FALSE))
DecreaseDone == DecreaseAfter.error = 0 /\ DecreaseAfter.adjusted = call.aglen

\* C10 as stated: a complete increase of a range followed by a complete
\* decrease of the same range leaves exactly the records that were there
\* before the increase and frees no block.
C10_RoundTripAny ==
    (IncreaseDone /\ DecreaseDone) =>
        DecreaseAfter.cur.recs = call.pre /\ DecreaseAfter.freed = <<>>

\* every record that overlapped the call's range before the call was a shared
\* record more than one short of the ceiling
BelowCeiling ==
    \A i \in 1 .. Len(call.pre) :
        (\E b \in AllBlocks : InCall(b) /\ i \in Covering(call.pre, b)) =>
            call.pre[i].rc_refcount \in 2 .. MAXREFCOUNT - 2

\* no two adjoining records have the same count
MaximallyMerged(rs) ==
    \A i \in 1 .. Len(rs) - 1 :
        RCNEXT(rs[i]) = rs[i + 1].rc_startblock =>
            rs[i].rc_refcount # rs[i + 1].rc_refcount

\* C10, amended: the round trip restores the records and frees nothing
\* provided that, before the increase, no two adjoining records had the same
\* count and every record overlapping the range had a count from 2 to
\* MAXREFCOUNT - 2.
C10_RoundTrip ==
    (IncreaseDone /\ DecreaseDone /\ BelowCeiling /\ MaximallyMerged(call.pre)) =>
        DecreaseAfter.cur.recs = call.pre /\ DecreaseAfter.freed = <<>>

\* a round trip over a range that splits a record off its neighbour and
\* reaches into a hole
C10_Witness ==
    /\ IncreaseDone /\ DecreaseDone /\ BelowCeiling /\ MaximallyMerged(call.pre)
    /\ Overlapped # {}
    /\ Overlapped # Blocks(call.agbno, call.aglen)
    /\ \E i \in 1 .. Len(call.pre) :
          /\ call.pre[i].rc_startblock < call.agbno
          /\ RCNEXT(call.pre[i]) > call.agbno

\* a transaction whose log reservation never runs out
Unlimited == Trans(U32, FALSE)
\* the request as one call of xfs_refcount_adjust on the records it found,
\* with an unlimited budget
WholeCall ==
    xfs_refcount_adjust(Cur(rq.pre, 0, 0, 0), rq.agbno, rq.aglen, Delta(rq.type),
                        Unlimited)
FreedBlocks(freed) == {b \in AllBlocks : FreedCount(freed, b) > 0}
\* the last call of an increase or decrease request has returned
RequestDone ==
    /\ AdjustCall /\ call.error = 0 /\ ri = NoReq
    /\ rq.type = call.type

\* C11: an adjustment that the budget stopped, resubmitted from agbno +
\* adjusted until it is complete, leaves the same records and has freed the
\* same blocks as one call of the whole range with an unlimited budget.
C11_ResumeEqualsWhole ==
    RequestDone =>
        /\ recs = WholeCall.cur.recs
        /\ FreedBlocks(rq.freed) = FreedBlocks(WholeCall.freed)

\* a call of xfs_refcount_adjust that the budget stopped
PartialCall == AdjustCall /\ call.error = 0 /\ call.adjusted < call.aglen
Done(b) == b \in Blocks(call.agbno, call.adjusted)

\* C12: when xfs_refcount_adjust returns adjusted < aglen without error,
\* every block of [agbno, agbno + adjusted) has had its effective count
\* changed by delta once (a block going from 1 to 0 is freed once and left
\* uncovered) and every other block has the effective count it had.
C12_PartialPrefixDone ==
    (PartialCall /\ OnlyShared(call.pre)) =>
        /\ Sorted(recs)
        /\ \A b \in AllBlocks :
              IF Done(b)
              THEN IF Eff(call.pre, b) + Delta(call.type) = 0
                   THEN FreedCount(call.freed, b) = 1 /\ ~Covered(recs, b)
                   ELSE /\ Eff(recs, b) = Eff(call.pre, b) + Delta(call.type)
                        /\ FreedCount(call.freed, b) = 0
              ELSE Eff(recs, b) = Eff(call.pre, b) /\ FreedCount(call.freed, b) = 0

\* a call of xfs_refcount_adjust with a new cursor (nr_ops == 0) that
\* returned without error
FreshCall == AdjustCall /\ call.fresh /\ call.error = 0

\* C13: every call of an increase or decrease with a new cursor adjusts at
\* least one block, and every call made for a requeued request leaves it
\* finished or strictly shorter: the remaining length, a natural number,
\* decreases with every resubmission, so the request is finished after
\* finitely many calls.
C13_Completes ==
    [][/\ FreshCall' => call'.adjusted >= 1
       /\ (ri # NoReq /\ ri' # ri) =>
             /\ call'.fresh
             /\ ri' = NoReq \/ ri'.ri_blockcount < ri.ri_blockcount]_vars

\* a request that the budget stopped is finished by a resubmitted call
C13_Witness ==
    /\ FreshCall
    /\ rq.aglen > call.aglen
    /\ call.adjusted = call.aglen
    /\ ri = NoReq

\* the blocks of the call's range that were under a record at MAXREFCOUNT
Saturated == {b \in AllBlocks : InCall(b) /\ Eff(call.pre, b) = MAXREFCOUNT}
IncreaseCall == call.type = "INCREASE" /\ call.error = 0

OverTheEnd ==
    /\ rq.type = "INCREASE"
    /\ Len(rq.pre) = 1
    /\ rq.pre[1].rc_refcount = 2
    /\ rq.pre[1].rc_startblock < rq.agbno
    /\ rq.agbno < RCNEXT(rq.pre[1])
    /\ RCNEXT(rq.pre[1]) < rq.agbno + rq.aglen

\* C15: when the only record is [s, e) with count 2, a complete increase of
\* a range [a, b) with s < a < e < b leaves exactly the three records
\* [s, a) = 2, [a, e) = 3 and [e, b) = 2, none of them merged (the scenario
\* [0,10) = 2, increase [5,15), in general lengths).
C15_ThreeRecords ==
    (RequestDone /\ OverTheEnd) =>
        recs = << Irec(rq.pre[1].rc_startblock,
                       rq.agbno - rq.pre[1].rc_startblock, 2),
                  Irec(rq.agbno, RCNEXT(rq.pre[1]) - rq.agbno, 3),
                  Irec(RCNEXT(rq.pre[1]),
                       rq.agbno + rq.aglen - RCNEXT(rq.pre[1]), 2) >>

\* the increase of the scenario has been done in one call
C15_Witness ==
    /\ RequestDone /\ OverTheEnd
    /\ rq.pre[1].rc_startblock = 0
    /\ call.aglen = rq.aglen
    /\ Len(recs) = 3

\* C19: when a deferred increase or decrease of (start, len) finishes
\* without error with adjusted < len, the entry written to the CUD has length
\* adjusted, the request is rewritten to (start + adjusted, len - adjusted)
\* and -EAGAIN is returned, so that it is requeued and not freed; the two
\* lengths add up to len and the requeued range begins where the recorded
\* one ends.
C19_PartialRequeued ==
    PartialCall =>
        /\ call.cud = PhysExtent(XFS_AGB_TO_FSB(TheAg, call.agbno), call.adjusted,
                                 call.type)
        /\ ri = Intent(call.type, XFS_AGB_TO_FSB(TheAg, call.agbno + call.adjusted),
                       call.aglen - call.adjusted)
        /\ call.ret = EAGAIN
        /\ call.cud.pe_len + ri.ri_blockcount = call.aglen
        /\ ri.ri_startblock = call.cud.pe_startblock + call.cud.pe_len

\* a decrease that the budget stopped after some blocks, not at the start of
\* the group
C19_Witness ==
    /\ PartialCall /\ call.type = "DECREASE"
    /\ call.adjusted > 0
    /\ call.agbno > 0
    /\ call.ret = EAGAIN

(***************************************************************************)
(* The life of the log items: one intent, the callers that fill its slots, *)
(* the transaction that logs it, the log's hold on it and its done item.   *)
(* The refcount btree is left alone here.                                  *)
(***************************************************************************)
\* the request that caller t logs
Req(t) == Add(IF t % 2 = 1 THEN "INCREASE" ELSE "DECREASE", <<(t - 1) % AgBlocks, 1>>)

\* the callers of the CUI's slots
Callers == 1 .. cui.cui_nextents
\* no caller is inside xfs_trans_log_start_refcount_update
NoneInCall == \A t \in Callers : prod[t].pc \in {"idle", "done"}
\* every caller has returned
Populated == \A t \in Callers : prod[t].pc = "done"

\* xfs_refcount_update_create_intent: xfs_trans_get_cui for nextents requests
GetCui ==
    /\ lg.tx = "none"
    /\ \E nextents \in 1 .. MaxExtents : cui' = xfs_cui_init(nextents)
    /\ lg' = [lg EXCEPT !.tx = "open"]
    /\ UNCHANGED <<cud, prod>>

\* xfs_trans_log_start_refcount_update by caller t: the transaction and the
\* item's descriptor are marked dirty
LogStartDirty(t) ==
    /\ lg.tx = "open"
    /\ t \in Callers
    /\ prod[t].pc = "idle"
    /\ lg' = [lg EXCEPT !.t_dirty = TRUE, !.lid_dirty = TRUE]
    /\ prod' = [prod EXCEPT ![t].pc = "reserve"]
    /\ UNCHANGED <<cui, cud>>

\* ... the slot is taken with atomic_inc_return
LogStartReserve(t) ==
    /\ t \in Callers
    /\ prod[t].pc = "reserve"
    /\ cui' = ReserveSlot(cui).cui
    /\ prod' = [prod EXCEPT ![t] = [pc |-> "fill",
                                    next_extent |-> ReserveSlot(cui).next_extent]]
    /\ UNCHANGED <<cud, lg>>

\* ... and the slot is written
LogStartFill(t) ==
    /\ t \in Callers
    /\ prod[t].pc = "fill"
    /\ cui' = FillSlot(cui, prod[t].next_extent, Req(t).ri_type,
                       Req(t).ri_startblock, Req(t).ri_blockcount)
    /\ prod' = [prod EXCEPT ![t].pc = "done"]
    /\ UNCHANGED <<cud, lg>>

\* the transaction of the CUI commits: xfs_cui_item_format finds every slot
\* used, xfs_cui_item_unlock runs without XFS_LI_ABORTED
CuiCommit ==
    /\ lg.tx = "open"
    /\ Populated
    /\ cui.cui_next_extent = cui.cui_nextents
    /\ cui' = xfs_cui_item_unlock(cui, FALSE)
    /\ lg' = [lg EXCEPT !.tx = "committed"]
    /\ UNCHANGED <<cud, prod>>

\* the dirty transaction of the CUI is cancelled: xfs_cui_item_unlock runs
\* with XFS_LI_ABORTED
CuiCancel ==
    /\ lg.tx = "open"
    /\ lg.t_dirty
    /\ NoneInCall
    /\ cui' = xfs_cui_item_unlock(cui, TRUE)
    /\ lg' = [lg EXCEPT !.tx = "cancelled"]
    /\ UNCHANGED <<cud, prod>>

\* the log is done with the committed CUI: it is in the AIL (remove = 0) or
\* the log I/O failed (remove = 1), and xfs_cui_item_unpin runs
CuiUnpin ==
    /\ lg.tx = "committed"
    /\ ~lg.unpinned
    /\ \E remove \in BOOLEAN :
          cui' = xfs_cui_item_unpin([cui EXCEPT !.in_ail = ~remove])
    /\ lg' = [lg EXCEPT !.unpinned = TRUE]
    /\ UNCHANGED <<cud, prod>>

\* xfs_refcount_update_create_done: xfs_trans_get_cud in the transaction
\* after the one that committed the CUI
GetCud ==
    /\ lg.tx = "committed"
    /\ lg.done = "pending"
    /\ cud' = xfs_cud_init(cui.cui_nextents)
    /\ lg' = [lg EXCEPT !.done = "cud", !.cud_tx = "open"]
    /\ UNCHANGED <<cui, prod>>

\* the transaction of the CUD commits: xfs_cud_item_unlock runs without
\* XFS_LI_ABORTED
CudCommit ==
    /\ lg.cud_tx = "open"
    /\ cui' = xfs_cud_item_unlock(cui, cud, FALSE).cui
    /\ cud' = xfs_cud_item_unlock(cui, cud, FALSE).cud
    /\ lg' = [lg EXCEPT !.cud_tx = "committed"]
    /\ UNCHANGED prod

\* the transaction of the CUD is cancelled: xfs_cud_item_unlock runs with
\* XFS_LI_ABORTED
CudCancel ==
    /\ lg.cud_tx = "open"
    /\ cui' = xfs_cud_item_unlock(cui, cud, TRUE).cui
    /\ cud' = xfs_cud_item_unlock(cui, cud, TRUE).cud
    /\ lg' = [lg EXCEPT !.cud_tx = "cancelled"]
    /\ UNCHANGED prod

\* the transaction code after iop_committed has returned lsn: an item whose
\* lsn is -1 is not referenced further, any other is put in the AIL
AfterCommitted(cudp, lsn) ==
    IF lsn = 0 - 1 THEN cudp
    ELSE IF cudp.state = "live" THEN cudp
    ELSE [cudp EXCEPT !.stale = TRUE]

\* the committed CUD reaches the disk: xfs_cud_item_committed
CudCommitted ==
    /\ lg.cud_tx = "committed"
    /\ cui' = xfs_cud_item_committed(cui, cud, CommitLsn).cui
    /\ cud' = AfterCommitted(xfs_cud_item_committed(cui, cud, CommitLsn).cud,
                             xfs_cud_item_committed(cui, cud, CommitLsn).lsn)
    /\ lg' = [lg EXCEPT !.cud_tx = "done",
                        !.lsn = xfs_cud_item_committed(cui, cud, CommitLsn).lsn]
    /\ UNCHANGED prod

\* the deferred operations are aborted before a CUD was made for the
\* committed CUI: xfs_refcount_update_abort_intent
AbortIntent ==
    /\ lg.tx = "committed"
    /\ lg.done = "pending"
    /\ cui' = xfs_refcount_update_abort_intent(cui)
    /\ lg' = [lg EXCEPT !.done = "aborted"]
    /\ UNCHANGED <<cud, prod>>

\* the items are gone and the next intent may be made
Forget ==
    /\ cui.state = "freed"
    /\ cud.state \in {"none", "freed"}
    /\ lg.tx = "cancelled" \/ (lg.unpinned /\ lg.done = "aborted")
                           \/ (lg.unpinned /\ lg.cud_tx \in {"cancelled", "done"})
    /\ cui' = NoCui
    /\ cud' = NoCud
    /\ prod' = [t \in Producers |-> NoProducer]
    /\ lg' = NoLog


ItemNext ==
    \/ GetCui /\ UNCHANGED <<bvars, rcv, fn>>
    \/ \E t \in Producers : LogStartDirty(t) /\ UNCHANGED <<bvars, rcv, fn>>
    \/ \E t \in Producers : LogStartReserve(t) /\ UNCHANGED <<bvars, rcv, fn>>
    \/ \E t \in Producers : LogStartFill(t) /\ UNCHANGED <<bvars, rcv, fn>>
    \/ CuiCommit /\ UNCHANGED <<bvars, rcv, fn>>
    \/ CuiCancel /\ UNCHANGED <<bvars, rcv, fn>>
    \/ CuiUnpin /\ UNCHANGED <<bvars, rcv, fn>>
    \/ GetCud /\ UNCHANGED <<bvars, rcv, fn>>
    \/ CudCommit /\ UNCHANGED <<bvars, rcv, fn>>
    \/ CudCancel /\ UNCHANGED <<bvars, rcv, fn>>
    \/ CudCommitted /\ UNCHANGED <<bvars, rcv, fn>>
    \/ AbortIntent /\ UNCHANGED <<bvars, rcv, fn>>
    \/ Forget /\ UNCHANGED <<bvars, rcv, fn>>

ItemSpec == Init /\ [][ItemNext]_vars

(***************************************************************************)
(* Log recovery: the log holds one intent, the refcount btree is as it was *)
(* written, and xfs_cui_recover is run on the intent.                      *)
(***************************************************************************)
\* the records of a btree in which block b has the count f[b] (1: no record)
RECURSIVE IndexFrom(_, _, _)
IndexFrom(f, b, acc) ==
    IF b >= AgBlocks THEN acc
    ELSE IF f[b] = 1 THEN IndexFrom(f, b + 1, acc)
    ELSE IF /\ acc # <<>>
            /\ RCNEXT(acc[Len(acc)]) = b
            /\ acc[Len(acc)].rc_refcount = f[b]
    THEN IndexFrom(f, b + 1,
                   [acc EXCEPT ![Len(acc)].rc_blockcount = @ + 1])
    ELSE IndexFrom(f, b + 1, Append(acc, Irec(b, 1, f[b])))
\* the btrees found at mount: blocks that are not shared, shared by two
\* owners, or at the ceiling
Indexes ==
    {IndexFrom(f, 0, <<>>) : f \in [0 .. AgBlocks - 1 -> {1, 2, MAXREFCOUNT}]}

\* the extents of the group that the logged intents name
RecRanges == {<<0, 1>>, <<0, AgBlocks - 1>>, <<1, AgBlocks - 1>>}
GoodExtents ==
    {PhysExtent(XFS_AGB_TO_FSB(TheAg, rg[1]), rg[2], type) :
        rg \in RecRanges, type \in {"INCREASE", "DECREASE"}}
    \cup {PhysExtent(XFS_AGB_TO_FSB(TheAg, 0), 1, type) :
             type \in {"ALLOC_COW", "FREE_COW"}}
\* extents of a damaged log: one field of a good extent is off
BadExtents ==
    LET good == PhysExtent(XFS_AGB_TO_FSB(TheAg, 0), 1, "INCREASE")
    IN  {[good EXCEPT !.pe_flags = 0],
         [good EXCEPT !.pe_flags = XFS_REFCOUNT_EXTENT_FREE_COW + 1],
         [good EXCEPT !.pe_flags = @ + XFS_REFCOUNT_EXTENT_FLAGS + 1],
         [good EXCEPT !.pe_startblock = 0],
         [good EXCEPT !.pe_startblock = XFS_AGB_TO_FSB(AgCount, 0)],
         [good EXCEPT !.pe_len = 0],
         [good EXCEPT !.pe_len = AgBlocks]}

\* a CUI read from the log: its extents are those logged, every slot is
\* used, it is in the AIL and the log has dropped its reference
LoggedCui(extents) ==
    [xfs_cui_init(Len(extents)) EXCEPT !.cui_extents = extents,
                                       !.cui_next_extent = Len(extents),
                                       !.writes = [i \in 1 .. Len(extents) |-> 1],
                                       !.cui_refcount = 1,
                                       !.in_ail = TRUE]
LoggedCuis ==
    {LoggedCui(extents) :
        extents \in UNION {[1 .. n -> GoodExtents \cup BadExtents] : n \in 1 .. RecExtents}}

RecoverInit ==
    /\ recs \in Indexes
    /\ ri = NoReq
    /\ staged = {}
    /\ call = NoCall
    /\ rq = NoRequest
    /\ cui \in LoggedCuis
    /\ cud = NoCud
    /\ prod = [t \in Producers |-> NoProducer]
    /\ lg = [NoLog EXCEPT !.tx = "committed", !.unpinned = TRUE]
    /\ rcv = NoRecovery
    /\ fn = NoFn

\* xlog_recover_process_cuis: xfs_cui_recover on a CUI of the AIL that is not
\* marked recovered
Recover ==
    LET Ran(r) ==
            /\ recs' = r.recs
            /\ cui' = r.cui
            /\ cud' = r.cud
            /\ lg' = [lg EXCEPT !.done = IF r.opened THEN "cud" ELSE @,
                                !.cud_tx = IF r.committed THEN "committed"
                                           ELSE IF r.opened THEN "cancelled"
                                           ELSE @]
            /\ rcv' = [pre |-> recs, ret |-> r.ret, opened |-> r.opened,
                       committed |-> r.committed, queued |-> r.queued,
                       calls |-> r.calls, ran |-> TRUE]
    IN  /\ ~rcv.ran
        /\ cui.state = "live"
        /\ cui.in_ail
        /\ "XFS_CUI_RECOVERED" \notin cui.cui_flags
        /\ \E reserve_error \in {0, ENOSPC}, fail \in 0 .. RecExtents + 1,
              res \in {LogRes, BytesPerOp} :
              Ran(xfs_cui_recover(recs, cui, Trans(res, FALSE), reserve_error,
                                  fail))
        /\ UNCHANGED <<ri, staged, call, rq, prod, fn>>

RecoverNext ==
    \/ Recover
    \/ CudCommitted /\ UNCHANGED <<bvars, rcv, fn>>

RecoverSpec == RecoverInit /\ [][RecoverNext]_vars

(***************************************************************************)
(* The functions taken on their own: each is called once, on a btree of     *)
(* shared extents of any counts in which CoW extents may have been staged,  *)
(* and on arguments drawn from small sets.                                  *)
(***************************************************************************)
FunInit ==
    /\ recs \in {IndexFrom(f, 0, <<>>) : f \in [0 .. AgBlocks - 1 -> 1 .. MAXREFCOUNT]}
    /\ ri = NoReq
    /\ staged = {}
    /\ call = NoCall
    /\ rq = NoRequest
    /\ NoItems

\* xfs_refcount_adjust_cow stages a CoW extent in the btree before the
\* function under study is called; the functions are studied on btrees whose
\* records are in key order and disjoint, as the lookups need them
Stage ==
    /\ fn = NoFn
    /\ \E rg \in Ranges :
          LET Staged(a) ==
                  /\ a.error = 0
                  /\ WellFormed(a.cur.recs)
                  /\ recs' = a.cur.recs
          IN  Staged(xfs_refcount_adjust_cow(Cur(recs, 0, 0, 0), rg[1], rg[2], TRUE))
    /\ UNCHANGED <<ri, staged, call, rq, ivars, rcv, fn>>

\* xfs_refcount_update_diff_items on two requests, of groups from both ends
\* and the middle of the 32-bit range
DiffItems ==
    /\ fn = NoFn
    /\ \E a, b \in {0, 1, U32 \div 2 - 1, U32 \div 2, U32 \div 2 + 1, U32 - 2},
          type \in {"INCREASE", "DECREASE"} :
          fn' = [op |-> "diff_items",
                 a |-> Intent(type, XFS_AGB_TO_FSB(a, 0), 1),
                 b |-> Intent(type, XFS_AGB_TO_FSB(b, 1), 1),
                 ret |-> xfs_refcount_update_diff_items(
                             Intent(type, XFS_AGB_TO_FSB(a, 0), 1),
                             Intent(type, XFS_AGB_TO_FSB(b, 1), 1))]
    /\ UNCHANGED <<bvars, ivars, rcv>>

\* the extents a CUI is filled with
FormatExtents ==
    {PhysExtent(XFS_AGB_TO_FSB(TheAg, b), 1, type) :
        b \in 0 .. 1, type \in {"INCREASE", "FREE_COW"}}
\* the destination of xfs_cui_copy_format: the cui_format of a CUI from
\* xfs_cui_init, zeroed by kmem_zalloc
ZeroFormat ==
    [header |-> CuiHeader(0, 0, 0, 0),
     extents |-> [k \in 1 .. MaxExtents |->
                     [pe_startblock |-> 0, pe_len |-> 0, pe_flags |-> 0]]]

\* a CUI of n extents, every slot filled, is formatted for the log by
\* xfs_cui_item_format and read back by xfs_cui_copy_format
FormatCopy ==
    /\ fn = NoFn
    /\ \E n \in 1 .. MaxExtents, id \in 1 .. 2 :
       \E extents \in [1 .. n -> FormatExtents] :
          LET cuip == [xfs_cui_init(n) EXCEPT !.cui_extents = extents,
                                              !.cui_next_extent = n]
              Read(buf) ==
                  fn' = [op |-> "format_copy", cui |-> cuip, id |-> id,
                         buf |-> buf,
                         ret |-> xfs_cui_copy_format(buf, ZeroFormat).ret,
                         dst |-> xfs_cui_copy_format(buf, ZeroFormat).dst]
          IN  Read(xfs_cui_item_format(cuip, id))
    /\ UNCHANGED <<bvars, ivars, rcv>>

\* xfs_cui_copy_format on a buffer read from the log, whatever it holds.  The
\* counts of extents it may claim are none, few, and the least count whose
\* size is a multiple of 2^32 more than that of one extent; its lengths are
\* the sizes of zero to two extents, and one that is no size of a format
\* structure
CopyFormat ==
    /\ fn = NoFn
    /\ \E n \in {0, 1, 2, U32 \div PhysExtentSize + 1},
          len \in {CuiFormatSize - PhysExtentSize, CuiFormatSize,
                   CuiFormatSize + PhysExtentSize, CuiFormatSize + 1},
          e \in FormatExtents :
          LET Read(buf) ==
                  fn' = [op |-> "copy_format", buf |-> buf,
                         ret |-> xfs_cui_copy_format(buf, ZeroFormat).ret,
                         dst |-> xfs_cui_copy_format(buf, ZeroFormat).dst]
          IN  Read([i_len |-> len, header |-> CuiHeader(XFS_LI_CUI, 1, n, 1),
                    extents |-> [k \in 1 .. ExtentsIn(len) |-> e]])
    /\ UNCHANGED <<bvars, ivars, rcv>>

\* xfs_refcount_split_extent at a block of the group, or at its end
SplitExtent ==
    /\ fn = NoFn
    /\ \E agbno \in 0 .. AgBlocks :
          LET Splitted(r) ==
                  /\ recs' = r.cur.recs
                  /\ fn' = [op |-> "split_extent", pre |-> recs, agbno |-> agbno,
                            error |-> r.error,
                            shape_changed |-> r.shape_changed]
          IN  Splitted(xfs_refcount_split_extent(Cur(recs, 0, 0, 0), agbno))
    /\ UNCHANGED <<ri, staged, call, rq, ivars, rcv>>

\* xfs_refcount_merge_extents as xfs_refcount_adjust calls it, on a range
\* that no record crosses at either end (none begins below the end and ends
\* above it), and once more on what the first call left
MergeExtents ==
    /\ fn = NoFn
    /\ \E rg \in Ranges, adjust \in {XFS_REFCOUNT_ADJUST_INCREASE,
                                     XFS_REFCOUNT_ADJUST_DECREASE} :
          LET Crossed(b) ==
                  \E i \in 1 .. Len(recs) :
                      recs[i].rc_startblock < b /\ b < RCNEXT(recs[i])
              Merged(m) ==
                  [recs |-> m.cur.recs, agbno |-> m.agbno, aglen |-> m.aglen,
                   error |-> m.error, shape_changed |-> m.shape_changed]
              Again(m1, m2) ==
                  /\ recs' = m2.cur.recs
                  /\ fn' = [op |-> "merge_extents", pre |-> recs,
                            agbno |-> rg[1], aglen |-> rg[2], adjust |-> adjust,
                            first |-> Merged(m1), again |-> Merged(m2)]
              First(m1) ==
                  Again(m1,
                        IF m1.error # 0 \/ m1.aglen = 0 THEN m1
                        ELSE xfs_refcount_merge_extents(m1.cur, m1.agbno, m1.aglen,
                                                        adjust, XFS_FIND_RCEXT_SHARED))
          IN  /\ ~Crossed(rg[1])
              /\ ~Crossed(rg[1] + rg[2])
              /\ First(xfs_refcount_merge_extents(Cur(recs, 0, 0, 0), rg[1], rg[2],
                                                  adjust, XFS_FIND_RCEXT_SHARED))
    /\ UNCHANGED <<ri, staged, call, rq, ivars, rcv>>

\* xfs_refcount_adjust on a cursor that earlier requests of the transaction
\* have used, or on a new one; space is what xfs_refcount_still_have_space
\* answers for the cursor as the call finds it
Adjust ==
    /\ fn = NoFn
    /\ \E rg \in Ranges, rcur \in Cursors,
          adj \in {XFS_REFCOUNT_ADJUST_INCREASE, XFS_REFCOUNT_ADJUST_DECREASE} :
          LET Adjusted(cur, a) ==
                  /\ recs' = a.cur.recs
                  /\ fn' = [op |-> "adjust", pre |-> recs, agbno |-> rg[1],
                            aglen |-> rg[2], adj |-> adj, rcur |-> rcur,
                            space |-> xfs_refcount_still_have_space(
                                          cur, Trans(LogRes, FALSE)),
                            adjusted |-> a.adjusted, error |-> a.error]
              On(cur) ==
                  Adjusted(cur, xfs_refcount_adjust(cur, rg[1], rg[2], adj,
                                                    Trans(LogRes, FALSE)))
          IN  On(IF rcur = NoCursor THEN Cur(recs, 0, 0, 0)
                 ELSE Cur(recs, 0, rcur.nr_ops, rcur.shape_changes))
    /\ UNCHANGED <<ri, staged, call, rq, ivars, rcv>>

\* xfs_refcount_adjust_extents as xfs_refcount_adjust calls it: on a range
\* that no record crosses at either end, with nothing adjusted yet, and on a
\* cursor that has counted nr_ops and shape_changes so far
AdjustExtents ==
    /\ fn = NoFn
    /\ \E rg \in Ranges, nr_ops \in 0 .. MaxNrOps, shape_changes \in 0 .. MaxShapeChanges,
          adj \in {XFS_REFCOUNT_ADJUST_INCREASE, XFS_REFCOUNT_ADJUST_DECREASE} :
          LET Crossed(b) ==
                  \E i \in 1 .. Len(recs) :
                      recs[i].rc_startblock < b /\ b < RCNEXT(recs[i])
              Swept(sw) ==
                  /\ recs' = sw.cur.recs
                  /\ fn' = [op |-> "adjust_extents", pre |-> recs,
                            agbno |-> rg[1], aglen |-> rg[2], adj |-> adj,
                            nr_ops |-> nr_ops, shape_changes |-> shape_changes,
                            adjusted |-> sw.adjusted, freed |-> sw.freed,
                            error |-> sw.error, ops |-> sw.cur.nr_ops]
          IN  /\ ~Crossed(rg[1])
              /\ ~Crossed(rg[1] + rg[2])
              /\ Swept(xfs_refcount_adjust_extents(
                           Cur(recs, 0, nr_ops, shape_changes), rg[1], rg[2], 0,
                           adj, Trans(LogRes, FALSE)))
    /\ UNCHANGED <<ri, staged, call, rq, ivars, rcv>>

\* xfs_refcount_insert of a record of one block, with the cursor at any
\* position, off the left edge included
Insert ==
    /\ fn = NoFn
    /\ \E ptr \in 0 .. Len(recs) + 1, b \in 0 .. AgBlocks - 1 :
          LET Inserted(r) ==
                  /\ recs' = r.cur.recs
                  /\ fn' = [op |-> "insert", pre |-> recs, ptr |-> ptr,
                            irec |-> Irec(b, 1, 2), error |-> r.error]
          IN  Inserted(xfs_refcount_insert(Cur(recs, ptr, 0, 0), Irec(b, 1, 2)))
    /\ UNCHANGED <<ri, staged, call, rq, ivars, rcv>>

\* xfs_refcount_delete with the cursor at any position, on a record or not
Delete ==
    /\ fn = NoFn
    /\ \E ptr \in 0 .. Len(recs) + 1 :
          LET Deleted(r) ==
                  /\ recs' = r.cur.recs
                  /\ fn' = [op |-> "delete", pre |-> recs, ptr |-> ptr,
                            error |-> r.error]
          IN  Deleted(xfs_refcount_delete(Cur(recs, ptr, 0, 0)))
    /\ UNCHANGED <<ri, staged, call, rq, ivars, rcv>>

\* xfs_refcount_insert and xfs_refcount_delete, with the cursor on a record,
\* when the btree fails with an I/O error; the status is 1 or another value
IndexFails ==
    /\ fn = NoFn
    /\ \E ptr \in 1 .. Len(recs), i \in 0 .. 1, insert \in BOOLEAN :
          LET Failed(r) ==
                  /\ recs' = r.cur.recs
                  /\ fn' = [op |-> "index_fails", pre |-> recs, ptr |-> ptr,
                            insert |-> insert, io |-> EIO, i |-> i,
                            error |-> r.error]
          IN  Failed(IF insert
                     THEN xfs_refcount_insert_failed(Cur(recs, ptr, 0, 0), EIO, i)
                     ELSE xfs_refcount_delete_failed(Cur(recs, ptr, 0, 0), EIO, i))
    /\ UNCHANGED <<ri, staged, call, rq, ivars, rcv>>

\* xfs_refcount_merge_center_extent for a left and a center extent that the
\* btree may or may not hold
MergeCenter ==
    /\ fn = NoFn
    /\ \E ls \in 0 .. AgBlocks - 1, cs \in 0 .. AgBlocks - 1, cc \in 1 .. 2 :
          LET Centered(m) ==
                  /\ recs' = m.cur.recs
                  /\ fn' = [op |-> "merge_center", pre |-> recs,
                            left |-> Irec(ls, 1, 2), center |-> Irec(cs, 1, cc),
                            extlen |-> AgBlocks, error |-> m.error,
                            aglen |-> m.aglen]
          IN  Centered(xfs_refcount_merge_center_extent(
                           Cur(recs, 0, 0, 0), Irec(ls, 1, 2), Irec(cs, 1, cc),
                           AgBlocks, cs, 1))
    /\ UNCHANGED <<ri, staged, call, rq, ivars, rcv>>

\* xfs_refcount_finish_one for a request of the group TheAg, handed no
\* cursor or the cursor that an earlier request of the transaction left, of
\* this group or of another; rcur is the cursor the request works with as
\* it starts, nr_ops and shape_changes are its counters when the call ends
FinishOne ==
    /\ fn = NoFn
    /\ \E rg \in Ranges, type \in {"INCREASE", "DECREASE", "ALLOC_COW", "FREE_COW"},
          pcur \in {NoCursor} \cup
                   [agno : {0, TheAg}, nr_ops : 0 .. MaxNrOps,
                    shape_changes : 0 .. MaxShapeChanges] :
          LET Ended(cur, r) ==
                  /\ recs' = r.recs
                  /\ fn' = [op |-> "finish_one", pre |-> recs, type |-> type,
                            agbno |-> rg[1], aglen |-> rg[2], pcur |-> pcur,
                            rcur |-> cur, nr_ops |-> r.rcur.nr_ops,
                            shape_changes |-> r.rcur.shape_changes,
                            adjusted |-> r.adjusted, error |-> r.error]
              Using(cur) ==
                  Ended(cur, xfs_refcount_finish_one(
                                recs,
                                [nr_ops |-> cur.nr_ops,
                                 shape_changes |-> cur.shape_changes],
                                type, XFS_AGB_TO_FSB(TheAg, rg[1]), rg[2],
                                Trans(LogRes, FALSE), FALSE))
          IN  Using(xfs_refcount_finish_one_cursor(pcur, TheAg))
    /\ UNCHANGED <<ri, staged, call, rq, ivars, rcv>>

FunNext ==
    \/ FinishOne
    \/ Stage
    \/ DiffItems
    \/ Insert
    \/ Delete
    \/ IndexFails
    \/ MergeCenter
    \/ Adjust
    \/ AdjustExtents
    \/ MergeExtents
    \/ SplitExtent
    \/ FormatCopy
    \/ CopyFormat

FunSpec == FunInit /\ [][FunNext]_vars

(***************************************************************************)
(* Properties of the log items.                                            *)
(***************************************************************************)
\* C16: the CUI is freed at most once, a freed CUI has no reference left (it
\* was freed by the release that took cui_refcount to zero) and is off the
\* AIL, and nothing releases or touches it after it was freed.
C16_FreedByLastRelease ==
    /\ cui.frees <= 1
    /\ ~cui.stale
    /\ cui.state = "freed" => cui.cui_refcount = 0 /\ ~cui.in_ail

\* C17: the CUD drops its reference to the CUI once and is freed once, when
\* it is committed (xfs_cud_item_committed, which returns -1) and when its
\* transaction is aborted; it is not used after that; and when the CUD is
\* gone and the log has unpinned the CUI, the CUI has been freed, once.
C17_DoneReleasesOnce ==
    /\ cud.released <= 1
    /\ cud.frees <= 1
    /\ ~cud.stale
    /\ cud.state = "freed" => cud.released = 1
    /\ lg.cud_tx = "done" => cud.state = "freed" /\ lg.lsn = 0 - 1
    /\ lg.cud_tx = "cancelled" => cud.state = "freed"
    /\ (cud.state = "freed" /\ lg.unpinned) =>
          cui.state = "freed" /\ cui.frees = 1 /\ ~cui.stale
\* a committed CUD has freed itself after the log unpinned the CUI, and the
\* CUI is freed
C17_Witness ==
    /\ lg.cud_tx = "done"
    /\ lg.unpinned
    /\ cud.state = "freed"
    /\ cui.state = "freed"
    /\ cui.cui_refcount = 0

\* the callers that have been given a slot
Served == {t \in Callers : prod[t].pc \in {"fill", "done"}}
\* C18: concurrent callers of xfs_trans_log_start_refcount_update on a CUI
\* of n slots are given distinct slots in 0 .. n-1, no slot is written twice,
\* and when all n calls have returned every slot was written once, with the
\* request of the caller that was given it.
C18_DistinctSlots ==
    /\ \A t \in Served : prod[t].next_extent \in 0 .. cui.cui_nextents - 1
    /\ \A t, u \in Served : t # u => prod[t].next_extent # prod[u].next_extent
    /\ \A i \in 1 .. Len(cui.writes) : cui.writes[i] <= 1
    /\ ~cui.stale
    /\ (cui.cui_nextents > 0 /\ Populated) =>
          /\ cui.cui_next_extent = cui.cui_nextents
          /\ \A i \in 1 .. cui.cui_nextents : cui.writes[i] = 1
          /\ \A t \in Callers :
                cui.cui_extents[prod[t].next_extent + 1] =
                    PhysExtent(Req(t).ri_startblock, Req(t).ri_blockcount,
                               Req(t).ri_type)
\* all the calls of a CUI of several slots have returned, and they were not
\* served in the order of the slots
C18_Witness ==
    /\ cui.state = "live"
    /\ cui.cui_nextents >= 2
    /\ Populated
    /\ \E t \in Callers : prod[t].next_extent # t - 1

(***************************************************************************)
(* Properties of log recovery.                                             *)
(***************************************************************************)
\* an extent that recovery must not trust: its operation code is unknown,
\* its length is zero, its start is not a block of the filesystem, or
\* pe_flags has a bit outside the allowed mask
Invalid(refc) ==
    \/ FlagsType(refc.pe_flags) \notin
           {XFS_REFCOUNT_EXTENT_INCREASE, XFS_REFCOUNT_EXTENT_DECREASE,
            XFS_REFCOUNT_EXTENT_ALLOC_COW, XFS_REFCOUNT_EXTENT_FREE_COW}
    \/ refc.pe_len = 0
    \/ StartblockFsb(refc.pe_startblock) \notin 1 .. sb_dblocks - 1
    \/ FlagsOutside(refc.pe_flags) # 0
\* C20: when some extent of the CUI is invalid, wherever it stands among the
\* extents, xfs_cui_recover allocates no transaction, leaves the refcount
\* btree as it was, makes no CUD and queues nothing, marks the CUI recovered,
\* releases it (which frees it and takes it off the AIL) and returns -EIO.
C20_InvalidDiscarded ==
    (rcv.ran /\ \E i \in 1 .. cui.cui_nextents : Invalid(cui.cui_extents[i])) =>
        /\ ~rcv.opened
        /\ recs = rcv.pre
        /\ cud = NoCud
        /\ rcv.queued = <<>>
        /\ "XFS_CUI_RECOVERED" \in cui.cui_flags
        /\ cui.state = "freed" /\ cui.cui_refcount = 0 /\ ~cui.in_ail
        /\ cui.frees = 1 /\ ~cui.stale
        /\ rcv.ret = EIO
\* a CUI whose first extent is good (an increase of blocks that have a
\* record) and whose second is invalid was discarded
C20_Witness ==
    /\ rcv.ran
    /\ cui.cui_nextents = 2
    /\ ~ExtentBad(cui.cui_extents[1])
    /\ IntentType(cui.cui_extents[1].pe_flags) = "INCREASE"
    /\ Invalid(cui.cui_extents[2])
    /\ recs # <<>>
    /\ recs[1].rc_startblock = 0
    /\ rcv.ret = EIO
    /\ cui.state = "freed"

\* the CUI was good: recovery found nothing to reject in its extents
Valid == \A i \in 1 .. cui.cui_nextents : ~Invalid(cui.cui_extents[i])
\* the blocks adjusted by a sequence of calls of xfs_refcount_finish_one
RECURSIVE Adjusted(_)
Adjusted(calls) ==
    IF calls = <<>> THEN 0 ELSE Head(calls).adjusted + Adjusted(Tail(calls))
\* the blocks of the first n extents of the CUI
RECURSIVE Logged(_)
Logged(n) == IF n = 0 THEN 0 ELSE cui.cui_extents[n].pe_len + Logged(n - 1)
\* the recovery went to its commit: every call succeeded, the calls adjusted
\* every block of every extent, the CUI is marked recovered, and its one
\* reference is dropped by the commit of the CUD and by nothing before it
RecoveredAll ==
    /\ rcv.ret = 0
    /\ rcv.committed
    /\ \A k \in 1 .. Len(rcv.calls) : rcv.calls[k].error = 0
    /\ Adjusted(rcv.calls) = Logged(cui.cui_nextents)
    /\ "XFS_CUI_RECOVERED" \in cui.cui_flags
    /\ IF lg.cud_tx = "committed"
       THEN cui.state = "live" /\ cui.cui_refcount = 1 /\ cud.released = 0
       ELSE /\ lg.cud_tx = "done"
            /\ cui.state = "freed" /\ cui.cui_refcount = 0 /\ cui.frees = 1
            /\ cud.released = 1
\* the recovery stopped at the first failed call: no call follows it, its
\* error is the one returned, nothing is committed, the CUI is not marked
\* recovered, and the cancelled CUD dropped the CUI's one reference
RecoveryAborted ==
    /\ rcv.ret # 0
    /\ ~rcv.committed
    /\ lg.cud_tx = "cancelled"
    /\ rcv.calls # <<>>
    /\ rcv.calls[Len(rcv.calls)].error = rcv.ret
    /\ \A k \in 1 .. Len(rcv.calls) - 1 : rcv.calls[k].error = 0
    /\ "XFS_CUI_RECOVERED" \notin cui.cui_flags
    /\ cui.state = "freed" /\ cui.cui_refcount = 0 /\ cui.frees = 1
    /\ cud.released = 1 /\ cud.state = "freed"
Replays == SelectSeq(rcv.calls, LAMBDA c : ~c.queued)
Finishes == SelectSeq(rcv.calls, LAMBDA c : c.queued)
\* the blocks of a sequence of requests
RECURSIVE Asked(_)
Asked(queue) ==
    IF queue = <<>> THEN 0 ELSE Head(queue).ri_blockcount + Asked(Tail(queue))
\* the replay of an extent that stopped before its end
Partial(c) == ~c.queued /\ c.error = 0 /\ c.adjusted < c.blockcount
\* the calls of xfs_defer_finish went through every queued request in order:
\* the first starts where the first request starts, each of the others where
\* the one before stopped or at the start of a later request, none failed,
\* and together they adjusted every queued block
Completed ==
    /\ \A k \in 1 .. Len(Finishes) : Finishes[k].error = 0
    /\ Finishes # <<>> => Finishes[1].startblock = rcv.queued[1].ri_startblock
    /\ \A k \in 2 .. Len(Finishes) :
           \/ Finishes[k].startblock =
                  Finishes[k - 1].startblock + Finishes[k - 1].adjusted
           \/ \E q \in 2 .. Len(rcv.queued) :
                  Finishes[k].startblock = rcv.queued[q].ri_startblock
    /\ Adjusted(Finishes) = Asked(rcv.queued)
\* C22: when the replay of an extent (start, len) of a recovered CUI adjusts
\* only adjusted < len blocks, the request (type, start + adjusted,
\* len - adjusted) is queued, and the recovery transaction is committed and
\* the CUI marked recovered only after xfs_defer_finish has processed the
\* queued requests to their end.
C22_RemainderFinishedFirst ==
    (rcv.ran /\ rcv.opened) =>
        \A k \in 1 .. Len(rcv.calls) :
            Partial(rcv.calls[k]) =>
                /\ rcv.queued # <<>>
                /\ rcv.queued[1] =
                       Intent(rcv.calls[k].type,
                              rcv.calls[k].startblock + rcv.calls[k].adjusted,
                              rcv.calls[k].blockcount - rcv.calls[k].adjusted)
                /\ (rcv.committed \/ "XFS_CUI_RECOVERED" \in cui.cui_flags) =>
                       Completed
                /\ ~Completed =>
                       ~rcv.committed /\ "XFS_CUI_RECOVERED" \notin cui.cui_flags
\* a committed recovery whose second extent was replayed in part, the first
\* having used most of the reservation, and whose remainder was finished by
\* xfs_defer_finish
C22_Witness ==
    /\ rcv.ran /\ rcv.committed
    /\ Len(rcv.calls) >= 3
    /\ Partial(rcv.calls[2])
    /\ rcv.calls[2].adjusted > 0
    /\ Finishes # <<>>
    /\ Completed
    /\ "XFS_CUI_RECOVERED" \in cui.cui_flags
\* C27: every call of xfs_trans_log_finish_refcount_update by the recovery,
\* failed or not, wrote one entry to the CUD, and a failed call left a
\* cancelled transaction whose CUD, aborted, was freed after releasing the
\* CUI's reference.
C27_DirtyOnError ==
    (rcv.ran /\ rcv.opened) =>
        /\ cud.cud_next_extent = Len(Replays)
        /\ \A k \in 1 .. Len(Replays) :
               /\ cud.cud_extents[k].pe_startblock = Replays[k].startblock
               /\ cud.cud_extents[k].pe_flags =
                      xfs_trans_set_refcount_flags(Replays[k].type)
               /\ Replays[k].error # 0 =>
                      /\ cud.cud_extents[k].pe_len = Replays[k].blockcount
                      /\ rcv.ret = Replays[k].error
                      /\ lg.cud_tx = "cancelled"
                      /\ cud.state = "freed" /\ cud.released = 1
                      /\ cui.state = "freed" /\ cui.cui_refcount = 0
                      /\ ~cui.in_ail
\* the first replay of a recovery failed
C27_Witness ==
    /\ rcv.ran /\ rcv.opened
    /\ Len(rcv.calls) = 1
    /\ rcv.calls[1].error = EIO
    /\ cud.cud_next_extent = 1
    /\ cud.released = 1

\* the sign of an integer
Sign(x) == IF x < 0 THEN 0 - 1 ELSE IF x > 0 THEN 1 ELSE 0
\* C23: for every two requests xfs_refcount_update_diff_items returns a
\* negative, zero or positive value exactly when the group of the first is
\* below, equal to or above the group of the second.
C23_DiffItemsOrdersGroups ==
    fn.op = "diff_items" =>
        Sign(fn.ret) = Sign(XFS_FSB_TO_AGNO(fn.a.ri_startblock)
                            - XFS_FSB_TO_AGNO(fn.b.ri_startblock))

\* the first n extents of a format structure
Extents(fmt, n) == [k \in 1 .. n |-> fmt.extents[k]]
\* C28: the format structure read back from the buffer that
\* xfs_cui_item_format wrote for a CUI of n extents has the CUI's header and
\* its n extents; and xfs_cui_copy_format copies a buffer exactly when its
\* length is the size of the header and of the cui_nextents extents that the
\* buffer claims, returning -EFSCORRUPTED with the destination untouched
\* otherwise.
C28_FormatRoundTrip ==
    /\ fn.op = "format_copy" =>
           /\ fn.ret = 0
           /\ fn.dst.header =
                  CuiHeader(XFS_LI_CUI, 1, fn.cui.cui_nextents, fn.id)
           /\ Extents(fn.dst, fn.cui.cui_nextents) = fn.cui.cui_extents
    /\ fn.op = "copy_format" =>
           IF fn.buf.i_len = CuiFormatSize
                             + (fn.buf.header.cui_nextents - 1) * PhysExtentSize
           THEN /\ fn.ret = 0
                /\ fn.dst.header = fn.buf.header
                /\ Extents(fn.dst, Len(fn.buf.extents)) = fn.buf.extents
           ELSE fn.ret = EFSCORRUPTED /\ fn.dst = ZeroFormat

\* the records that start below block b and end above it
Straddling(rs, b) ==
    {i \in 1 .. Len(rs) : rs[i].rc_startblock < b /\ b < RCNEXT(rs[i])}
\* rs with record i cut in two at block b
CutAt(rs, i, b) ==
    SubSeq(rs, 1, i - 1)
    \o <<Irec(rs[i].rc_startblock, b - rs[i].rc_startblock, rs[i].rc_refcount),
         Irec(b, RCNEXT(rs[i]) - b, rs[i].rc_refcount)>>
    \o SubSeq(rs, i + 1, Len(rs))
MergeNoOp ==
    /\ fn.first.error = 0 /\ fn.again.error = 0
    /\ fn.first.recs = fn.pre /\ fn.again.recs = fn.pre
    /\ fn.first.agbno = fn.agbno /\ fn.first.aglen = fn.aglen
    /\ fn.again.agbno = fn.agbno /\ fn.again.aglen = fn.aglen
\* the stored record next to the range on the left (on the right) has the
\* count that the first (the last) block of the range will have once it is
\* adjusted
LeftClash ==
    /\ fn.agbno > 0
    /\ Covered(fn.pre, fn.agbno - 1)
    /\ Eff(fn.pre, fn.agbno - 1) = Eff(fn.pre, fn.agbno) + fn.adjust
RightClash ==
    /\ fn.agbno + fn.aglen < AgBlocks
    /\ Covered(fn.pre, fn.agbno + fn.aglen)
    /\ Eff(fn.pre, fn.agbno + fn.aglen)
           = Eff(fn.pre, fn.agbno + fn.aglen - 1) + fn.adjust
\* C25 as stated: on a btree in which no two abutting records have equal
\* counts xfs_refcount_merge_extents changes no record and leaves the range as
\* it is, and so does a second call.
C25_MergeNoOp ==
    (fn.op = "merge_extents" /\ MaximallyMerged(fn.pre)) => MergeNoOp
\* C25 amended: the same provided that, in addition, neither record next to
\* the range has the count that the adjustment will give the block of the
\* range beside it.
C25_MergeNoOpUnlessClash ==
    (fn.op = "merge_extents" /\ MaximallyMerged(fn.pre)
        /\ ~LeftClash /\ ~RightClash) => MergeNoOp
\* the merge step was called for an increase on a range with a record on
\* either side, of counts that the increase will not reach, and changed
\* nothing
C25_Witness ==
    /\ fn.op = "merge_extents"
    /\ fn.adjust = XFS_REFCOUNT_ADJUST_INCREASE
    /\ fn.agbno = 1 /\ fn.aglen = 1
    /\ Covered(fn.pre, 0) /\ Covered(fn.pre, 1) /\ Covered(fn.pre, 2)
    /\ ~LeftClash /\ ~RightClash
    /\ fn.first.shape_changed
    /\ MergeNoOp

\* every record is one of shared blocks: no staging record
SharedOnly(rs) == \A i \in 1 .. Len(rs) : rs[i].rc_refcount >= 2
\* C24: when no two abutting records of the btree had equal counts before a
\* complete increase or decrease, none have afterwards, inside the range or
\* at its ends.
C24_StaysMerged ==
    (/\ AdjustCall /\ call.error = 0 /\ call.adjusted = call.aglen
     /\ WellFormed(call.pre) /\ SharedOnly(call.pre)
     /\ MaximallyMerged(call.pre))
        => MaximallyMerged(recs)

\* C29: an increase or decrease changes a record only after
\* xfs_refcount_still_have_space has been asked and has found room: a call
\* that finds the reservation of its transaction used up, by the operations
\* its cursor has counted, leaves the btree as it was.
C29_CheckedBeforeMutation ==
    (fn.op = "adjust" /\ fn.error = 0 /\ SharedOnly(fn.pre) /\ ~fn.space)
        => recs = fn.pre

\* the positions of the records of rs that start at or after block b, and of
\* those that start at or before it
AtOrAfter(rs, b) == {i \in 1 .. Len(rs) : rs[i].rc_startblock >= b}
AtOrBefore(rs, b) == {i \in 1 .. Len(rs) : rs[i].rc_startblock <= b}
\* rs without its first record at or after block b
WithoutFrom(rs, b) == Without(rs, SetMin(AtOrAfter(rs, b)))
\* the btree after the deletions of xfs_refcount_merge_center_extent that
\* found their record: the first record at or after the center and, for a
\* center that is a record, the one that follows it
FirstGone == WithoutFrom(fn.pre, fn.center.rc_startblock)
FirstStart == fn.pre[SetMin(AtOrAfter(fn.pre, fn.center.rc_startblock))].rc_startblock
BothGone == IF fn.center.rc_refcount > 1 THEN WithoutFrom(FirstGone, FirstStart)
            ELSE FirstGone
\* C26: when the btree does not take an insert (the key is there already, or
\* the cursor is off the left edge) or has no record for a delete,
\* xfs_refcount_insert and xfs_refcount_delete return -EFSCORRUPTED and the
\* btree stays as it is; xfs_refcount_merge_center_extent returns
\* -EFSCORRUPTED at the first lookup or delete that finds no record and the
\* btree stays as the steps before it left it.
C26_CorruptStopsTheCall ==
    /\ fn.op = "insert" =>
           IF fn.ptr = 0 \/ \E i \in 1 .. Len(fn.pre) :
                               fn.pre[i].rc_startblock = fn.irec.rc_startblock
           THEN fn.error = EFSCORRUPTED /\ recs = fn.pre
           ELSE fn.error = 0 /\ Len(recs) = Len(fn.pre) + 1
    /\ fn.op = "delete" =>
           IF fn.ptr \notin 1 .. Len(fn.pre)
           THEN fn.error = EFSCORRUPTED /\ recs = fn.pre
           ELSE fn.error = 0 /\ recs = Without(fn.pre, fn.ptr)
    /\ fn.op = "merge_center" =>
           IF AtOrAfter(fn.pre, fn.center.rc_startblock) = {}
           THEN fn.error = EFSCORRUPTED /\ recs = fn.pre
           ELSE IF fn.center.rc_refcount > 1 /\ AtOrAfter(FirstGone, FirstStart) = {}
           THEN fn.error = EFSCORRUPTED /\ recs = FirstGone
           ELSE IF AtOrBefore(BothGone, fn.left.rc_startblock) = {}
           THEN fn.error = EFSCORRUPTED /\ recs = BothGone
           ELSE fn.error = 0 /\ Len(recs) = Len(BothGone) /\ fn.aglen = 0
\* the second deletion of xfs_refcount_merge_center_extent found no record:
\* the first record is gone, the left record was not rewritten
C26_Witness ==
    /\ fn.op = "merge_center"
    /\ fn.error = EFSCORRUPTED
    /\ Len(fn.pre) = 2
    /\ fn.center.rc_refcount > 1
    /\ AtOrAfter(fn.pre, fn.center.rc_startblock) # {}
    /\ AtOrAfter(FirstGone, FirstStart) = {}
    /\ AtOrBefore(FirstGone, fn.left.rc_startblock) # {}
    /\ recs = FirstGone

(***************************************************************************)
(* Properties of the merge step and of the sweep.                          *)
(***************************************************************************)
\* records l and r of the btree end at the start and begin at the end of the
\* range of the call, and what lies between them is one piece: a record that
\* is the range, or no record at all
Around(l, r) ==
    /\ RCNEXT(fn.pre[l]) = fn.agbno
    /\ fn.pre[r].rc_startblock = fn.agbno + fn.aglen
    /\ \/ r = l + 1
       \/ r = l + 2 /\ fn.pre[l + 1] = Irec(fn.agbno, fn.aglen, fn.pre[l + 1].rc_refcount)
\* the count of the piece between records l and r
CenterCount(l, r) == IF r = l + 1 THEN 1 ELSE fn.pre[l + 1].rc_refcount
\* records l and r have the count that the piece between them is to get, and
\* the three together are below the longest extent
ThreeWay(l, r) ==
    /\ Around(l, r)
    /\ fn.pre[l].rc_refcount = CenterCount(l, r) + fn.adjust
    /\ fn.pre[r].rc_refcount = CenterCount(l, r) + fn.adjust
    /\ fn.pre[l].rc_blockcount + fn.aglen + fn.pre[r].rc_blockcount < MAXREFCEXTLEN
\* the call left one record in place of records l to r, with the start and
\* the count of record l, and nothing of the range
Collapsed(l, r) ==
    /\ fn.first.error = 0
    /\ fn.first.aglen = 0
    /\ fn.first.recs =
           SubSeq(fn.pre, 1, l - 1)
           \o <<Irec(fn.pre[l].rc_startblock,
                     fn.pre[l].rc_blockcount + fn.aglen + fn.pre[r].rc_blockcount,
                     fn.pre[l].rc_refcount)>>
           \o SubSeq(fn.pre, r + 1, Len(fn.pre))
\* C31 as stated: when a left record ends at the range start, a right record
\* begins at the range end, the range is one piece, real or implied, both
\* records have the count of the piece plus the adjustment and the three are
\* shorter than MAXREFCEXTLEN, xfs_refcount_merge_extents leaves one record
\* {left start, combined length, left count} in their place and no range.
C31_ThreeWayMerge ==
    fn.op = "merge_extents" =>
        \A l, r \in 1 .. Len(fn.pre) : ThreeWay(l, r) => Collapsed(l, r)

\* the records of the btree that the sweep reached: those in the part of the
\* range that was adjusted
SweptRecords ==
    {i \in 1 .. Len(fn.pre) :
        /\ fn.agbno <= fn.pre[i].rc_startblock
        /\ RCNEXT(fn.pre[i]) <= fn.agbno + fn.adjusted}
\* the blocks of record i of the btree
BlocksOf(i) == Blocks(fn.pre[i].rc_startblock, fn.pre[i].rc_blockcount)
\* record i is in the btree after the call, with count c
Rewritten(i, c) ==
    \E j \in 1 .. Len(recs) : recs[j] = [fn.pre[i] EXCEPT !.rc_refcount = c]
\* no record of the btree after the call holds a block of record i
Removed(i) == \A b \in BlocksOf(i) : ~Covered(recs, b)
\* the blocks of record i were handed to xfs_bmap_add_free, as one extent
Freed(i) ==
    \E k \in 1 .. Len(fn.freed) :
        fn.freed[k] = Extent(fn.pre[i].rc_startblock, fn.pre[i].rc_blockcount)
\* none of the blocks of record i was handed to xfs_bmap_add_free
NotFreed(i) == \A b \in BlocksOf(i) : FreedCount(fn.freed, b) = 0
\* what C32 says of record i, whose count with the adjustment is c
SweptAs(i, c) ==
    /\ c > 1 => Rewritten(i, c) /\ NotFreed(i)
    /\ c = 1 => Removed(i) /\ NotFreed(i)
    /\ c = 0 => Removed(i) /\ Freed(i)
\* C32 as stated: the sweep of an increase or a decrease applies the
\* adjustment to every stored record in the range; a record whose count is
\* then above 1 is rewritten in place, one whose count is then 1 is deleted,
\* and one whose count is then 0 is deleted and its blocks are freed.
C32_SweepByCount ==
    (fn.op = "adjust_extents" /\ fn.error = 0) =>
        \A i \in SweptRecords : SweptAs(i, fn.pre[i].rc_refcount + fn.adj)

\* the records the sweep reached that were at MAXREFCOUNT
SweptSaturated == {i \in SweptRecords : fn.pre[i].rc_refcount = MAXREFCOUNT}
\* the gaps between records that the sweep reached, each named by its first
\* block
SweptHoles ==
    {b \in Blocks(fn.agbno, fn.adjusted) :
        /\ ~Covered(fn.pre, b)
        /\ b = fn.agbno \/ Covered(fn.pre, b - 1)}
\* C33: in the sweep of an increase a record at MAXREFCOUNT stays as it is
\* and none of its blocks is freed; nr_ops grows by one for every other
\* record and every gap that the sweep reached and by nothing for the
\* records at MAXREFCOUNT; and when the range goes on after such a record,
\* so does the sweep, in the same call.
C33_SaturatedPassedOver ==
    (fn.op = "adjust_extents" /\ fn.error = 0
        /\ fn.adj = XFS_REFCOUNT_ADJUST_INCREASE) =>
        /\ \A i \in SweptSaturated :
               /\ Rewritten(i, MAXREFCOUNT)
               /\ NotFreed(i)
               /\ RCNEXT(fn.pre[i]) < fn.agbno + fn.aglen
                      => fn.agbno + fn.adjusted > RCNEXT(fn.pre[i])
        /\ fn.ops = fn.nr_ops + Cardinality(SweptRecords \ SweptSaturated)
                              + Cardinality(SweptHoles)
\* an increase swept a record at MAXREFCOUNT and then a record below it: the
\* first stayed, the second was raised, and one operation was counted
C33_Witness ==
    /\ fn.op = "adjust_extents" /\ fn.error = 0
    /\ fn.adj = XFS_REFCOUNT_ADJUST_INCREASE
    /\ fn.pre = <<Irec(0, 1, MAXREFCOUNT), Irec(1, 1, 2)>>
    /\ fn.agbno = 0 /\ fn.aglen = 2 /\ fn.adjusted = 2
    /\ recs = <<Irec(0, 1, MAXREFCOUNT), Irec(1, 1, 3)>>
    /\ fn.ops = fn.nr_ops + 1

\* records l and r are around the one piece of the range, record l is one of
\* shared blocks with the count that the piece is to get, and record r is not
\* such a one: the left merge is taken and the piece is cleft and cright
LeftTie(l, r) ==
    /\ Around(l, r)
    /\ fn.pre[l].rc_refcount >= 2
    /\ fn.pre[l].rc_refcount = CenterCount(l, r) + fn.adjust
    /\ fn.pre[r].rc_refcount # CenterCount(l, r) + fn.adjust
C35_IoErrorKept ==
    fn.op = "index_fails" => fn.error = fn.io

Stored ==
    [i \in 1 .. cui.cui_nextents |->
        Intent(IntentType(cui.cui_extents[i].pe_flags),
               cui.cui_extents[i].pe_startblock, cui.cui_extents[i].pe_len)]
\* the calls go through the requests in their order: each call is made for
\* the first request not yet finished, or for what is left of it
RECURSIVE InStoredOrder(_, _)
InStoredOrder(calls, requests) ==
    IF calls = <<>> THEN TRUE
    ELSE IF requests = <<>> THEN FALSE
    ELSE LET c == Head(calls)
             e == Head(requests)
             left == Intent(e.ri_type, e.ri_startblock + c.adjusted,
                            e.ri_blockcount - c.adjusted)
         IN  /\ c.type = e.ri_type
             /\ c.startblock = e.ri_startblock
             /\ c.blockcount = e.ri_blockcount
             /\ c.adjusted <= c.blockcount
             /\ InStoredOrder(Tail(calls),
                              IF c.adjusted = c.blockcount THEN Tail(requests)
                              ELSE <<left>> \o Tail(requests))
DecreaseCall == call.type = "DECREASE" /\ call.error = 0
\* C39 as stated: a decrease leaves every block of its range that is under
\* a record at MAXREFCOUNT under a record at MAXREFCOUNT and frees none of
\* them, and these blocks count as adjusted: a call with a new cursor over
\* saturated blocks only returns adjusted == aglen.
C39_SaturationSticky ==
    DecreaseCall =>
        /\ \A b \in Saturated :
               /\ Covered(recs, b)
               /\ Eff(recs, b) = MAXREFCOUNT
               /\ FreedCount(call.freed, b) = 0
        /\ (call.fresh /\ Saturated = Blocks(call.agbno, call.aglen)) =>
               call.adjusted = call.aglen

(***************************************************************************)
(* Properties of the counters of the cursor.                               *)
(***************************************************************************)
\* the counters that the cursor handed to the call had: 0 without a cursor
Carried ==
    IF fn.pcur = NoCursor THEN [nr_ops |-> 0, shape_changes |-> 0]
    ELSE [nr_ops |-> fn.pcur.nr_ops, shape_changes |-> fn.pcur.shape_changes]
\* C40: a request handed the cursor of an earlier request of the transaction
\* starts with that cursor's nr_ops and shape_changes, whether the cursor is
\* of the request's group (kept) or of another (copied to the new cursor);
\* only a request handed no cursor starts at 0.  The request leaves nr_ops
\* no lower, and shape_changes either as it was or one higher, whatever
\* the number of records it split or merged; staging leaves both as they
\* were.
C40_CountersOnlyGrow ==
    fn.op = "finish_one" =>
        /\ fn.rcur.agno = TheAg
        /\ fn.rcur.nr_ops = Carried.nr_ops
        /\ fn.rcur.shape_changes = Carried.shape_changes
        /\ fn.nr_ops >= Carried.nr_ops
        /\ fn.shape_changes \in
               {Carried.shape_changes, Carried.shape_changes + 1}
        /\ fn.type \in {"ALLOC_COW", "FREE_COW"} =>
               /\ fn.nr_ops = Carried.nr_ops
               /\ fn.shape_changes = Carried.shape_changes
\* an increase of the middle block of a record of three, handed the cursor
\* of another group that had counted one operation: the count went on from
\* there, the record was split at both ends, and shape_changes went up by one
C40_Witness ==
    /\ fn.op = "finish_one" /\ fn.error = 0
    /\ fn.type = "INCREASE"
    /\ fn.pcur # NoCursor
    /\ fn.pcur.agno # TheAg
    /\ fn.pcur.nr_ops = 1 /\ fn.pcur.shape_changes = 0
    /\ fn.pre = <<Irec(0, 3, 2)>>
    /\ fn.agbno = 1 /\ fn.aglen = 1 /\ fn.adjusted = 1
    /\ recs = <<Irec(0, 1, 2), Irec(1, 1, 3), Irec(2, 1, 2)>>
    /\ fn.nr_ops = 2
    /\ fn.shape_changes = 1

=============================================================================
